---------------------------- MODULE Spec2Model ----------------------------
(***************************************************************************)
(* A model of graph-of-thought: the paragraph classifier and section tree  *)
(* of TreeGenerator, the graph builder and query entry point of            *)
(* GraphIndexer, and the two bounded multi-source path searches            *)
(* (BMSSPAlgorithm, the baseline, and OptimizedBMSSPAlgorithm, the         *)
(* selective variant).                                                     *)
(*                                                                         *)
(* Numbers.  The program computes weights, scores and distances in IEEE    *)
(* doubles.  The model computes them as exact fractions <<n, d>>, d > 0,   *)
(* in lowest terms, so that equal values are equal tuples.                 *)
(*                                                                         *)
(* Text.  A paragraph is a record                                          *)
(*     [lead, depth, words, label]                                         *)
(* lead  : what the trimmed paragraph starts with: "hash" (a run of '#'),  *)
(*         "num" (a dotted number such as 1.2) or "none";                  *)
(* depth : the number of '#', or of dot-separated numeric components;      *)
(* words : the whitespace-separated alphanumeric tokens after the lead;    *)
(* label : the third conjunct of TreeGenerator's generic heading test      *)
(*         (ends with ':', or a capitalised sentence without terminal      *)
(*         punctuation, or all upper case).                                *)
(***************************************************************************)
EXTENDS Integers, Sequences, FiniteSets, TLC

VARIABLES
    pc,        \* position of the modelled call sequence
    cfg,       \* GraphIndexer's this.config
    content,   \* the document text handed to index / generateTree
    graph,     \* the GraphIndex: [nodes, edges]
    tree,      \* TreeIndex.nodes, the result of generateTree
    call,      \* the running findBoundedPaths call: [variant, sources, options]
    st,        \* its locals: [queue, visitedPaths, results, last]
    out        \* the value returned by the last search

vars == <<pc, cfg, content, graph, tree, call, st, out>>

-----------------------------------------------------------------------------
(* Exact fractions *)

Abs(n) == IF n < 0 THEN -n ELSE n

RECURSIVE GCD(_, _)
GCD(a, b) == IF b = 0 THEN a ELSE GCD(b, a % b)

Q(n, d) == LET g == GCD(Abs(n), d) IN <<n \div g, d \div g>>

QZero == <<0, 1>>
QOne == <<1, 1>>

QAdd(x, y) ==
    LET g == GCD(x[2], y[2])
        l == x[2] * (y[2] \div g)
    IN Q(x[1] * (l \div x[2]) + y[1] * (l \div y[2]), l)

QNeg(x) == <<-x[1], x[2]>>

QSub(x, y) == QAdd(x, QNeg(y))

QMul(x, y) ==
    LET g1 == GCD(Abs(x[1]), y[2])
        g2 == GCD(Abs(y[1]), x[2])
    IN IF x[1] = 0 \/ y[1] = 0 THEN QZero
       ELSE <<(x[1] \div g1) * (y[1] \div g2), (x[2] \div g2) * (y[2] \div g1)>>

QDivInt(x, k) == QMul(x, <<1, k>>)

(* a/b < c/d for a, c >= 0 and b, d > 0, by comparing integer parts and then
   the reciprocals of the fractional parts: no product is formed. *)
RECURSIVE QLtPos(_, _, _, _)
QLtPos(a, b, c, d) ==
    LET qa == a \div b
        qc == c \div d
        ra == a % b
        rc == c % d
    IN IF qa # qc THEN qa < qc
       ELSE IF rc = 0 THEN FALSE
       ELSE IF ra = 0 THEN TRUE
       ELSE QLtPos(d, rc, b, ra)

QLt(x, y) ==
    IF x[1] < 0 /\ y[1] >= 0 THEN TRUE
    ELSE IF x[1] >= 0 /\ y[1] < 0 THEN FALSE
    ELSE IF x[1] >= 0 THEN QLtPos(x[1], x[2], y[1], y[2])
    ELSE QLtPos(-y[1], y[2], -x[1], x[2])

QLe(x, y) == ~QLt(y, x)

QMax(x, y) == IF QLt(x, y) THEN y ELSE x

QMin(x, y) == IF QLt(y, x) THEN y ELSE x

QInt(n) == <<n, 1>>

RECURSIVE QSum(_)
QSum(s) == IF s = <<>> THEN QZero ELSE QAdd(Head(s), QSum(Tail(s)))

RECURSIVE QMaxOf(_)
QMaxOf(s) == IF Len(s) = 1 THEN s[1] ELSE QMax(s[1], QMaxOf(Tail(s)))

-----------------------------------------------------------------------------
(* Sequence helpers standing for Array.prototype methods *)

Filter(s, Keep(_)) == SelectSeq(s, Keep)

Includes(s, x) == \E i \in 1..Len(s) : s[i] = x

Range(s) == {s[i] : i \in 1..Len(s)}

RECURSIVE Flatten(_)
Flatten(ss) == IF ss = <<>> THEN <<>> ELSE Head(ss) \o Flatten(Tail(ss))

(* s.slice(0, n) *)
Slice(s, n) ==
    LET e == IF n < 0 THEN Len(s) + n ELSE n
    IN SubSeq(s, 1, IF e < Len(s) THEN (IF e < 0 THEN 0 ELSE e) ELSE Len(s))

(* Array.prototype.sort with a comparator: a stable sort.  Every comparator
   of the program orders by one number, or by one number and then another,
   so an element is sorted by its key <<first, second>>, ascending; a
   descending order negates the number. *)
KeyLt(k1, k2) == QLt(k1[1], k2[1]) \/ (k1[1] = k2[1] /\ QLt(k1[2], k2[2]))

(* x, which stood after every element of the sorted list s, lands after the
   elements that do not sort after it. *)
InsertLast(x, s) ==
    LET pos == Cardinality({j \in 1..Len(s) : ~KeyLt(x.key, s[j].key)})
    IN SubSeq(s, 1, pos) \o <<x>> \o SubSeq(s, pos + 1, Len(s))

RECURSIVE SortKeyed(_)
SortKeyed(ps) ==
    IF ps = <<>> THEN <<>>
    ELSE InsertLast(ps[Len(ps)], SortKeyed(SubSeq(ps, 1, Len(ps) - 1)))

StableSort(s, Key(_)) ==
    LET sorted == SortKeyed([i \in 1..Len(s) |-> [key |-> Key(s[i]), item |-> s[i]]])
    IN [i \in 1..Len(s) |-> sorted[i].item]

-----------------------------------------------------------------------------
(* Text *)

(* String.prototype.toLowerCase on the tokens the model uses. *)
Lower(w) ==
    CASE w = "Data" -> "data"
      [] w = "Intro" -> "intro"
      [] w = "Index" -> "index"
      [] w = "Notes" -> "notes"
      [] w = "Notes:" -> "notes:"
      [] w = "Chapter" -> "chapter"
      [] w = "Section" -> "section"
      [] OTHER -> w

(* String.prototype.includes between a query term and one token: the term is
   empty, the token itself, or one of the proper substrings listed. *)
IsSubstring(term, w) ==
    \/ term = ""
    \/ term = w
    \/ <<term, w>> \in {<<"dat", "data">>, <<"ata", "data">>, <<"set", "setup">>,
                        <<"text", "text.">>, <<"notes", "notes:">>}

CommonSections ==
    {"introduction", "abstract", "conclusion", "references", "appendix",
     "summary", "overview", "background"}

RECURSIVE WordsLen(_)
WordsLen(ws) ==
    IF ws = <<>> THEN 0
    ELSE Len(Head(ws)) + (IF Len(ws) > 1 THEN 1 ELSE 0) + WordsLen(Tail(ws))

(* paragraph.length: the lead ('#' run, or digits and dots), a space, the words. *)
ParagraphLength(p) ==
    (CASE p.lead = "hash" -> p.depth
       [] p.lead = "num" -> 2 * p.depth - 1
       [] OTHER -> 0)
    + (IF p.lead # "none" /\ p.words # <<>> THEN 1 ELSE 0)
    + WordsLen(p.words)

IsBlank(p) == p.lead = "none" /\ p.words = <<>>

splitIntoParagraphs(text) == Filter(text, LAMBDA p : ~IsBlank(p))

(* The paragraph's text as tokens, for joins and summaries: the lead is one
   token that holds no letter. *)
ParagraphTokens(p) ==
    (CASE p.lead = "hash" -> <<"#">>
       [] p.lead = "num" -> <<"1">>
       [] OTHER -> <<>>) \o p.words

MaxSummaryLength == 200

(* The tokens of `ws` that fit in the first n characters of their join. *)
RECURSIVE FitWords(_, _)
FitWords(ws, n) ==
    IF ws = <<>> \/ Len(Head(ws)) > n THEN <<>>
    ELSE <<Head(ws)>> \o FitWords(Tail(ws), n - Len(Head(ws)) - 1)

(* content.join(' '), cut to maxLen characters with '...' when longer *)
SummaryOf(ps, maxLen) ==
    LET text == Flatten([i \in 1..Len(ps) |-> ParagraphTokens(ps[i])])
    IN IF WordsLen(text) <= maxLen THEN text
       ELSE FitWords(text, maxLen - 3) \o <<"...">>

generateSummary(ps) == SummaryOf(ps, MaxSummaryLength)

-----------------------------------------------------------------------------
(* GraphIndexer: building the graph *)

MaxHeadingLevel == 4
MaxMarkdownHashes == 6
CommonSectionMaxLength == 50

Min(a, b) == IF a < b THEN a ELSE b

analyzeParagraph(p) ==
    IF p.lead = "hash" /\ p.depth >= 1 /\ p.depth <= MaxMarkdownHashes /\ p.words # <<>>
    THEN [isSection |-> TRUE, title |-> p.words, level |-> Min(p.depth, MaxHeadingLevel)]
    ELSE IF p.lead = "num" /\ p.depth >= 1 /\ p.words # <<>>
    THEN [isSection |-> TRUE, title |-> p.words, level |-> Min(p.depth, MaxHeadingLevel)]
    ELSE IF /\ p.lead = "none" /\ p.words # <<>>
            /\ Lower(p.words[1]) \in CommonSections
            /\ ParagraphLength(p) < CommonSectionMaxLength
    THEN [isSection |-> TRUE, title |-> p.words, level |-> 1]
    ELSE [isSection |-> FALSE, title |-> <<>>, level |-> 0]

MinKeywordLength == 3
MaxKeywords == 10

(* '#', '.' and ':' become blanks and the numeric components are tokens of
   fewer than four digits, so only the words can pass the length filter. *)
extractKeywords(p) ==
    Slice(Filter([i \in 1..Len(p.words) |-> Lower(p.words[i])],
                 LAMBDA w : Len(w) > MinKeywordLength),
          MaxKeywords)

(* generateNodeId draws a random string; the model draws the k-th of a list
   of distinct ids. *)
NodeIds == <<"node_0", "node_1", "node_2", "node_3", "node_4", "node_5", "node_6">>

generateNodeId(k) == NodeIds[k + 1]

Undefined == <<>>

RootNode(paragraphs, title) ==
    [nodeId |-> generateNodeId(0),
     title |-> title,
     content |-> paragraphs,
     summary |-> generateSummary(paragraphs),
     type |-> "document",
     position |-> [start |-> 0, end |-> Len(paragraphs) - 1],
     level |-> 0,
     keywords |-> Undefined,
     centrality |-> Undefined]

SectionNode(p, k, index) ==
    [nodeId |-> generateNodeId(k),
     title |-> analyzeParagraph(p).title,
     content |-> <<p>>,
     summary |-> generateSummary(<<p>>),
     type |-> "section",
     position |-> [start |-> index, end |-> index],
     level |-> analyzeParagraph(p).level,
     keywords |-> extractKeywords(p),
     centrality |-> Undefined]

(* The loop of createGraphNodes from paragraph i on, with `made` nodes
   already pushed; currentIndex is i - 1. *)
RECURSIVE SectionNodesFrom(_, _, _)
SectionNodesFrom(paragraphs, i, made) ==
    IF i > Len(paragraphs) THEN <<>>
    ELSE IF analyzeParagraph(paragraphs[i]).isSection
    THEN <<SectionNode(paragraphs[i], made, i - 1)>>
         \o SectionNodesFrom(paragraphs, i + 1, made + 1)
    ELSE SectionNodesFrom(paragraphs, i + 1, made)

createGraphNodes(paragraphs, title) ==
    <<RootNode(paragraphs, title)>> \o SectionNodesFrom(paragraphs, 1, 1)

KeywordsOf(node) == node.keywords

(* intersection.length / union.length: the intersection is a filter of the
   first list, repeats kept; the union is a Set. *)
GI_calculateSemanticSimilarity(node1, node2) ==
    LET keywords1 == KeywordsOf(node1)
        keywords2 == KeywordsOf(node2)
        intersection == Filter(keywords1, LAMBDA k : Includes(keywords2, k))
        union == Range(keywords1) \cup Range(keywords2)
    IN IF Len(keywords1) = 0 \/ Len(keywords2) = 0 THEN QZero
       ELSE Q(Len(intersection), Cardinality(union))

ParentChildWeight == <<4, 5>>

ParentChildEdges(nodes) ==
    LET sections == Filter([i \in 1..(Len(nodes) - 1) |-> nodes[i + 1]],
                           LAMBDA n : n.type = "section")
    IN [i \in 1..Len(sections) |->
          [from |-> nodes[1].nodeId, to |-> sections[i].nodeId,
           weight |-> ParentChildWeight, type |-> "parent-child"]]

(* The cross-reference double loop, i and j being 0-based indexes into nodes
   as in the source. *)
RECURSIVE SemanticEdgesFrom(_, _, _, _)
SemanticEdgesFrom(nodes, i, j, minEdgeWeight) ==
    IF i >= Len(nodes) THEN <<>>
    ELSE IF j >= Len(nodes) THEN SemanticEdgesFrom(nodes, i + 1, i + 2, minEdgeWeight)
    ELSE LET weight == GI_calculateSemanticSimilarity(nodes[i + 1], nodes[j + 1])
         IN (IF QLt(minEdgeWeight, weight)
             THEN <<[from |-> nodes[i + 1].nodeId, to |-> nodes[j + 1].nodeId,
                     weight |-> weight, type |-> "semantic"]>>
             ELSE <<>>)
            \o SemanticEdgesFrom(nodes, i, j + 1, minEdgeWeight)

identifyRelationships(nodes, config) ==
    IF ~config.enableCrossReferences THEN <<>>
    ELSE ParentChildEdges(nodes) \o SemanticEdgesFrom(nodes, 1, 2, config.minEdgeWeight)

CentralityScale == 10

calculateNodeCentrality(nodeId, edges) ==
    LET connections == Filter(edges, LAMBDA e : e.from = nodeId \/ e.to = nodeId)
    IN QMin(Q(Len(connections), CentralityScale), QOne)

precomputeNodeRelationships(nodes, edges) ==
    [i \in 1..Len(nodes) |->
        [nodes[i] EXCEPT !.centrality = calculateNodeCentrality(nodes[i].nodeId, edges)]]

GI_index(text, title, config) ==
    LET paragraphs == splitIntoParagraphs(text)
        nodes == createGraphNodes(paragraphs, title)
        edges == identifyRelationships(nodes, config)
    IN [nodes |-> IF config.precomputeRelationships
                  THEN precomputeNodeRelationships(nodes, edges)
                  ELSE nodes,
        edges |-> edges]

-----------------------------------------------------------------------------
(* TreeGenerator: segmentation and the section tree *)

TG_MaxSummaryLength == 200
LabelMaxLength == 100
LabelMaxWords == 10

(* A heading pattern of the configuration is a test of the first word,
   /^word/: it holds no group, so match[1] is undefined and the title is
   the paragraph. *)
MatchesPattern(p, pattern) == p.lead = "none" /\ p.words # <<>> /\ p.words[1] = pattern

(* paragraph.replace(/[:]+$/, '') on the tokens the model uses. *)
StripColons(ws) ==
    IF ws # <<>> /\ ws[Len(ws)] = "Notes:"
    THEN SubSeq(ws, 1, Len(ws) - 1) \o <<"Notes">>
    ELSE ws

analyzeParagraphForSection(p, config) ==
    IF \E i \in 1..Len(config.headingPatterns) : MatchesPattern(p, config.headingPatterns[i])
    THEN [isHeading |-> TRUE, title |-> ParagraphTokens(p), level |-> 1]
    ELSE IF p.lead = "num" /\ p.depth >= 1 /\ p.words # <<>>
    THEN [isHeading |-> TRUE, title |-> p.words, level |-> Min(p.depth, MaxHeadingLevel)]
    ELSE IF p.lead = "hash" /\ p.depth >= 1 /\ p.depth <= MaxMarkdownHashes /\ p.words # <<>>
    THEN [isHeading |-> TRUE, title |-> p.words, level |-> Min(p.depth, MaxHeadingLevel)]
    ELSE IF /\ p.lead = "none" /\ p.words # <<>>
            /\ Lower(p.words[1]) \in CommonSections
            /\ ParagraphLength(p) < CommonSectionMaxLength
    THEN [isHeading |-> TRUE, title |-> ParagraphTokens(p), level |-> 1]
    ELSE IF /\ ParagraphLength(p) < LabelMaxLength
            /\ Len(ParagraphTokens(p)) <= LabelMaxWords
            /\ p.label
    THEN [isHeading |-> TRUE, title |-> StripColons(ParagraphTokens(p)), level |-> 1]
    ELSE [isHeading |-> FALSE, title |-> <<>>, level |-> 0]

(* let currentSection: DocumentNode | null = null *)
NoSection == <<>>

(* A DocumentNode as identifySections creates it, for the paragraph p. *)
(* A section opened without the paragraph that opens it. *)
NewSectionWithoutParagraph(title, nodeId, currentIndex, p, level, config) ==
    [title |-> title, nodeId |-> nodeId,
     startIndex |-> currentIndex, endIndex |-> currentIndex,
     summary |-> SummaryOf(<<p>>, config.maxSummaryLength),
     content |-> <<>>, text |-> <<>>, level |-> level]

NewSection(title, nodeId, currentIndex, p, level, config) ==
    [title |-> title, nodeId |-> nodeId,
     startIndex |-> currentIndex, endIndex |-> currentIndex,
     summary |-> SummaryOf(<<p>>, config.maxSummaryLength),
     content |-> <<p>>, text |-> <<p>>, level |-> level]

CloseSection(section, currentIndex) ==
    [section EXCEPT !.endIndex = currentIndex - 1, !.text = section.content]

(* The locals of identifySections before its loop *)
TG_Begin(paragraphs) ==
    [paragraphs |-> paragraphs, next |-> 1, sections |-> <<>>,
     currentSection |-> NoSection, currentIndex |-> 0, last |-> "begin"]

(* One iteration of the loop over the paragraphs; nodeId is what
   generateNodeId returns if the iteration calls it. *)
TG_Step(s, nodeId, config) ==
    LET p == s.paragraphs[s.next]
        sectionInfo == analyzeParagraphForSection(p, config)
    IN IF sectionInfo.isHeading
       THEN [s EXCEPT !.sections = IF s.currentSection # NoSection
                                   THEN Append(@, CloseSection(s.currentSection,
                                                               s.currentIndex))
                                   ELSE @,
                      !.currentSection = NewSection(sectionInfo.title, nodeId,
                                                    s.currentIndex, p,
                                                    sectionInfo.level, config),
                      !.next = @ + 1, !.last = "heading"]
       ELSE IF s.currentSection # NoSection
       THEN [s EXCEPT !.currentSection = [@ EXCEPT !.content = Append(@, p)],
                      !.currentIndex = @ + 1,
                      !.next = @ + 1, !.last = "body"]
       ELSE [s EXCEPT !.sections =
                          Append(@, NewSection(<<"Section", ToString(Len(s.sections) + 1)>>,
                                               nodeId, s.currentIndex, p, 1, config)),
                      !.currentIndex = @ + 1,
                      !.next = @ + 1, !.last = "orphan"]

(* What identifySections returns once the loop is over *)
TG_Sections(s) ==
    IF s.currentSection # NoSection
    THEN Append(s.sections, CloseSection(s.currentSection, s.currentIndex))
    ELSE s.sections

(* The number of sections after the first that buildHierarchy takes as its
   descendants: the run of sections whose level is above `bound`. *)
(* A hierarchy in which no section is taken as a descendant. *)
NoChildRun(sections, from, bound) == 0

RECURSIVE ChildRun(_, _, _)
ChildRun(sections, from, bound) ==
    IF from <= Len(sections) /\ sections[from].level > bound
    THEN 1 + ChildRun(sections, from + 1, bound)
    ELSE 0

RECURSIVE buildHierarchy(_, _)
buildHierarchy(sections, minLevel) ==
    IF Len(sections) = 0 THEN <<>>
    ELSE LET currentSection == sections[1]
             bound == IF currentSection.level # 0 THEN currentSection.level ELSE minLevel
             run == ChildRun(sections, 2, bound)
             node == [title |-> currentSection.title,
                      nodeId |-> currentSection.nodeId,
                      startIndex |-> currentSection.startIndex,
                      endIndex |-> currentSection.endIndex,
                      summary |-> currentSection.summary,
                      text |-> IF currentSection.text # <<>> THEN currentSection.text
                               ELSE currentSection.content,
                      children |-> buildHierarchy(SubSeq(sections, 2, 1 + run),
                                                  minLevel + 1)]
         IN <<node>> \o buildHierarchy(SubSeq(sections, 2 + run, Len(sections)), minLevel)

buildNodes(sections, title, nodeId, config) ==
    IF Len(sections) = 0 THEN <<>>
    ELSE LET allContent == Flatten([i \in 1..Len(sections) |-> sections[i].content])
         IN <<[title |-> title, nodeId |-> nodeId,
               startIndex |-> 0, endIndex |-> Len(sections) - 1,
               summary |-> SummaryOf(allContent, config.maxSummaryLength),
               text |-> allContent,
               children |-> buildHierarchy(sections, 0)]>>

-----------------------------------------------------------------------------
(* What both searches share *)

DefaultMaxDepth == 3
DefaultMaxResults == 10
DefaultMinEdgeWeight == <<1, 10>>

(* The destructuring defaults of findBoundedPaths: an option the caller's
   object does not hold takes its default. *)
WithDefaults(options) ==
    [maxDepth |-> IF "maxDepth" \in DOMAIN options THEN options.maxDepth
                  ELSE DefaultMaxDepth,
     maxResults |-> IF "maxResults" \in DOMAIN options THEN options.maxResults
                    ELSE DefaultMaxResults,
     minEdgeWeight |-> IF "minEdgeWeight" \in DOMAIN options THEN options.minEdgeWeight
                       ELSE DefaultMinEdgeWeight]

HasNode(g, id) == \E i \in 1..Len(g.nodes) : g.nodes[i].nodeId = id

(* graph.nodes.find(n => n.nodeId === id), for an id that HasNode *)
FindNode(g, id) ==
    g.nodes[CHOOSE i \in 1..Len(g.nodes) :
               /\ g.nodes[i].nodeId = id
               /\ \A j \in 1..(i - 1) : g.nodes[j].nodeId # id]

(* path.join('->') *)
RECURSIVE PathSignature(_)
PathSignature(path) ==
    IF path = <<>> THEN ""
    ELSE IF Len(path) = 1 THEN path[1]
    ELSE path[1] \o "->" \o PathSignature(Tail(path))

FallbackCentrality == <<1, 2>>

(* node.metadata?.centrality || 0.5: undefined and 0 are both falsy *)
CentralityOr(node) ==
    IF node.centrality = Undefined \/ node.centrality = QZero
    THEN FallbackCentrality ELSE node.centrality

EdgeShare == <<7, 10>>
NodeShare == <<3, 10>>

JoinsPair(e, a, b) == (e.from = a /\ e.to = b) \/ (e.from = b /\ e.to = a)

(* graph.edges.find(...) for step i of the path; its weight, or 0 if none *)
StepWeight(path, i, g) ==
    LET hits == Filter(g.edges, LAMBDA e : JoinsPair(e, path[i], path[i + 1]))
    IN IF hits = <<>> THEN QZero ELSE hits[1].weight

PathScoreOf(path, g) ==
    LET edgeWeightSum == QSum([i \in 1..(Len(path) - 1) |-> StepWeight(path, i, g)])
        nodeScores == [i \in 1..Len(path) |->
                          IF HasNode(g, path[i]) THEN CentralityOr(FindNode(g, path[i]))
                          ELSE QZero]
        avgNodeScore == QDivInt(QSum(nodeScores), Len(path))
        totalScore == QAdd(QMul(QDivInt(edgeWeightSum, Len(path) - 1), EdgeShare),
                           QMul(avgNodeScore, NodeShare))
    IN QMin(totalScore, QOne)

BMSSP_calculatePathScore(path, g) ==
    IF Len(path) < 2 THEN QZero ELSE PathScoreOf(path, g)

generatePathReasoning(path, g) ==
    LET nodeTitles == [i \in 1..Len(path) |->
                          IF HasNode(g, path[i]) THEN FindNode(g, path[i]).title
                          ELSE <<"Unknown">>]
    IN IF Len(path) = 0 THEN [kind |-> "No path found", titles |-> <<>>]
       ELSE IF Len(path) = 1
       THEN [kind |-> "Found relevant section", titles |-> nodeTitles]
       ELSE IF Len(path) = 2
       THEN [kind |-> "Connected related sections", titles |-> nodeTitles]
       ELSE [kind |-> "Found connected path through sections", titles |-> nodeTitles]

(* A return that keeps the order in which the results were found. *)
KeepFoundOrder(results) == results

(* results.sort((a, b) => b.pathScore - a.pathScore).slice(0, maxResults) *)
SortByPathScore(results) ==
    StableSort(results, LAMBDA r : <<QNeg(r.pathScore), QZero>>)

SortAndSlice(results, maxResults) == Slice(SortByPathScore(results), maxResults)

-----------------------------------------------------------------------------
(* BMSSPAlgorithm: the baseline search *)

BMSSP_Seed(g, sourceNodeIds) ==
    LET present == Filter(sourceNodeIds, LAMBDA id : HasNode(g, id))
    IN [queue |-> [i \in 1..Len(present) |->
                      [nodeId |-> present[i], distance |-> QZero,
                       path |-> <<present[i]>>, visited |-> {present[i]}]],
        visitedPaths |-> {},
        results |-> <<>>,
        last |-> "seed"]

(* A neighbor scan that takes edges of any weight. *)
getNeighborsOfAnyWeight(nodeId, g, visited, minWeight) ==
    LET outgoing == Filter(g.edges, LAMBDA e : e.from = nodeId /\ e.to \notin visited)
        reverse == Filter(g.edges, LAMBDA e : e.to = nodeId /\ e.from \notin visited)
    IN [i \in 1..Len(outgoing) |-> [nodeId |-> outgoing[i].to, weight |-> outgoing[i].weight]]
       \o [i \in 1..Len(reverse) |-> [nodeId |-> reverse[i].from, weight |-> reverse[i].weight]]

getValidNeighbors(nodeId, g, visited, minWeight) ==
    LET outgoing == Filter(g.edges, LAMBDA e :
                        e.from = nodeId /\ e.to \notin visited /\ QLe(minWeight, e.weight))
        reverse == Filter(g.edges, LAMBDA e :
                        e.to = nodeId /\ e.from \notin visited /\ QLe(minWeight, e.weight))
    IN [i \in 1..Len(outgoing) |-> [nodeId |-> outgoing[i].to, weight |-> outgoing[i].weight]]
       \o [i \in 1..Len(reverse) |-> [nodeId |-> reverse[i].from, weight |-> reverse[i].weight]]

(* A worklist left in the order in which its entries were pushed. *)
KeepPushOrder(queue) == queue

BMSSP_SortQueue(queue) ==
    StableSort(queue, LAMBDA it : <<it.distance, QZero>>)

(* A loop without the depth check. *)
BMSSP_IgnoresDepth(current, maxDepth) == FALSE

BMSSP_ExceedsDepth(current, maxDepth) == QLt(QInt(maxDepth), current.distance)

(* A loop without the signature check. *)
BMSSP_NeverDuplicate(current, visitedPaths) == FALSE

BMSSP_IsDuplicate(current, visitedPaths) == PathSignature(current.path) \in visitedPaths

BMSSP_Running(s, o) == Len(s.queue) > 0 /\ Len(s.results) < o.maxResults

BMSSP_Push(current, neighbors) ==
    LET fresh == Filter(neighbors, LAMBDA n : n.nodeId \notin current.visited)
    IN [i \in 1..Len(fresh) |->
          [nodeId |-> fresh[i].nodeId,
           distance |-> QAdd(current.distance, fresh[i].weight),
           path |-> Append(current.path, fresh[i].nodeId),
           visited |-> current.visited \cup {fresh[i].nodeId}]]

(* An iteration that reads the head of the worklist without removing it. *)
BMSSP_StepWithoutShift(g, o, s) ==
    LET sorted == BMSSP_SortQueue(s.queue)
        current == Head(sorted)
    IN IF BMSSP_ExceedsDepth(current, o.maxDepth)
       THEN [s EXCEPT !.queue = sorted, !.last = "depth"]
       ELSE IF BMSSP_IsDuplicate(current, s.visitedPaths)
       THEN [s EXCEPT !.queue = sorted, !.last = "duplicate"]
       ELSE [queue |-> sorted \o BMSSP_Push(current,
                          getValidNeighbors(current.nodeId, g, current.visited,
                                            o.minEdgeWeight)),
             visitedPaths |-> s.visitedPaths \cup {PathSignature(current.path)},
             results |-> s.results,
             last |-> "expanded"]

(* One iteration of the while loop, for a state in which the loop runs. *)
BMSSP_Step(g, o, s) ==
    LET sorted == BMSSP_SortQueue(s.queue)
        current == Head(sorted)
        rest == Tail(sorted)
    IN IF BMSSP_ExceedsDepth(current, o.maxDepth)
       THEN [s EXCEPT !.queue = rest, !.last = "depth"]
       ELSE IF BMSSP_IsDuplicate(current, s.visitedPaths)
       THEN [s EXCEPT !.queue = rest, !.last = "duplicate"]
       ELSE [queue |-> rest \o BMSSP_Push(current,
                          getValidNeighbors(current.nodeId, g, current.visited,
                                            o.minEdgeWeight)),
             visitedPaths |-> s.visitedPaths \cup {PathSignature(current.path)},
             results |-> IF Len(current.path) > 1
                         THEN Append(s.results,
                                [nodeIds |-> current.path,
                                 distance |-> current.distance,
                                 pathScore |-> BMSSP_calculatePathScore(current.path, g),
                                 reasoning |-> generatePathReasoning(current.path, g)])
                         ELSE s.results,
             last |-> IF Len(current.path) > 1 THEN "reported" ELSE "expanded"]

BMSSP_Return(s, o) == SortAndSlice(s.results, o.maxResults)

RECURSIVE BMSSP_Run(_, _, _)
BMSSP_Run(g, o, s) ==
    IF BMSSP_Running(s, o) THEN BMSSP_Run(g, o, BMSSP_Step(g, o, s)) ELSE s

BMSSP_findBoundedPaths(g, sourceNodeIds, options) ==
    LET o == WithDefaults(options)
    IN BMSSP_Return(BMSSP_Run(g, o, BMSSP_Seed(g, sourceNodeIds)), o)

-----------------------------------------------------------------------------
(* OptimizedBMSSPAlgorithm: the selective variant *)

ActivationFloor == <<1, 4>>
EnqueueFloor == <<3, 20>>
MissingNodeBaseScore == <<1, 2>>

CentralityShare == <<1, 4>>
SimilarityShare == <<3, 10>>
KeywordShare == <<3, 20>>
TypeShare == <<3, 20>>
PositionShare == <<3, 20>>

KeywordRelevance == <<2, 5>>
SectionTypeWeight == <<4, 5>>
OtherTypeWeight == <<3, 10>>
PositionFloor == <<7, 10>>
PositionDecay == <<1, 10>>

ThresholdBase == <<7, 10>>
ThresholdSlope == <<2, 5>>

Opt_calculateSemanticSimilarity(node1, node2) ==
    LET keywords1 == KeywordsOf(node1)
        keywords2 == KeywordsOf(node2)
        intersection == Filter(keywords1, LAMBDA k : Includes(keywords2, k))
        union == Range(keywords1) \cup Range(keywords2)
    IN IF Len(keywords1) = 0 \/ Len(keywords2) = 0 THEN QZero
       ELSE Q(Len(intersection), IF Cardinality(union) > 1 THEN Cardinality(union) ELSE 1)

calculateNodeActivationScore(node, sourceNodeIds, g) ==
    LET centrality == CentralityOr(node)
        sourceNodes == Filter(g.nodes, LAMBDA n : Includes(sourceNodeIds, n.nodeId))
        semanticSimilarity ==
            IF Len(sourceNodes) > 0
            THEN QMaxOf([i \in 1..Len(sourceNodes) |->
                            Opt_calculateSemanticSimilarity(node, sourceNodes[i])])
            ELSE QZero
        keywordRelevance == IF Len(KeywordsOf(node)) > 0 THEN KeywordRelevance ELSE QZero
        typeWeight == IF node.type = "section" THEN SectionTypeWeight ELSE OtherTypeWeight
        positionWeight == QMax(PositionFloor,
                               QSub(QOne, QMul(QInt(node.position.start), PositionDecay)))
        combinedScore ==
            QSum(<<QMul(centrality, CentralityShare),
                   QMul(semanticSimilarity, SimilarityShare),
                   QMul(keywordRelevance, KeywordShare),
                   QMul(typeWeight, TypeShare),
                   QMul(positionWeight, PositionShare)>>)
    IN QMin(combinedScore, QOne)

Opt_Seed(g, sourceNodeIds) ==
    LET present == Filter(sourceNodeIds, LAMBDA id : HasNode(g, id))
    IN [queue |-> [i \in 1..Len(present) |->
                      [nodeId |-> present[i], distance |-> QZero,
                       path |-> <<present[i]>>, visited |-> {present[i]},
                       activationScore |->
                           calculateNodeActivationScore(FindNode(g, present[i]),
                                                        sourceNodeIds, g),
                       parentScore |-> QOne]],
        visitedPaths |-> {},
        results |-> <<>>,
        activatedNodes |-> Range(present),
        last |-> "seed"]

DynamicThreshold(minWeight, parentActivationScore) ==
    QMax(minWeight, QSub(ThresholdBase, QMul(parentActivationScore, ThresholdSlope)))

getValidNeighborsWithSelectiveActivation(nodeId, g, visited, minWeight, parentScore) ==
    LET dynamicThreshold == DynamicThreshold(minWeight, parentScore)
        outgoing == Filter(g.edges, LAMBDA e :
                        e.from = nodeId /\ e.to \notin visited
                        /\ QLe(dynamicThreshold, e.weight))
        reverse == Filter(g.edges, LAMBDA e :
                        e.to = nodeId /\ e.from \notin visited
                        /\ QLe(dynamicThreshold, e.weight))
        neighbors ==
            [i \in 1..Len(outgoing) |->
                [nodeId |-> outgoing[i].to, weight |-> outgoing[i].weight]]
            \o [i \in 1..Len(reverse) |->
                [nodeId |-> reverse[i].from, weight |-> reverse[i].weight]]
    IN StableSort(neighbors, LAMBDA n : <<QNeg(n.weight), QZero>>)

Opt_SortQueue(queue) ==
    StableSort(queue, LAMBDA it : <<QNeg(it.activationScore), it.distance>>)

Opt_ExceedsDepth(current, maxDepth) == QLt(QInt(maxDepth), current.distance)

Opt_BelowFloor(current) == QLt(current.activationScore, ActivationFloor)

Opt_IsDuplicate(current, visitedPaths) == PathSignature(current.path) \in visitedPaths

Opt_Running(s, o) == Len(s.queue) > 0 /\ Len(s.results) < o.maxResults

NeighborActivation(current, neighbor, sourceNodeIds, g) ==
    LET baseScore == IF HasNode(g, neighbor.nodeId)
                     THEN calculateNodeActivationScore(FindNode(g, neighbor.nodeId),
                                                       sourceNodeIds, g)
                     ELSE MissingNodeBaseScore
    IN QMul(QMul(baseScore, neighbor.weight), current.activationScore)

Opt_Push(current, neighbors, sourceNodeIds, g) ==
    LET fresh == Filter(neighbors, LAMBDA n : n.nodeId \notin current.visited)
        items == [i \in 1..Len(fresh) |->
                    [nodeId |-> fresh[i].nodeId,
                     distance |-> QAdd(current.distance, fresh[i].weight),
                     path |-> Append(current.path, fresh[i].nodeId),
                     visited |-> current.visited \cup {fresh[i].nodeId},
                     activationScore |->
                         NeighborActivation(current, fresh[i], sourceNodeIds, g),
                     parentScore |-> current.activationScore]]
    IN Filter(items, LAMBDA it : QLe(EnqueueFloor, it.activationScore))

Opt_calculatePathScore(path, g) ==
    IF Len(path) < 2 THEN QZero ELSE PathScoreOf(path, g)

(* One iteration of the while loop, for a state in which the loop runs. *)
Opt_Step(g, sourceNodeIds, o, s) ==
    LET sorted == Opt_SortQueue(s.queue)
        current == Head(sorted)
        rest == Tail(sorted)
        pushed == Opt_Push(current,
                     getValidNeighborsWithSelectiveActivation(
                         current.nodeId, g, current.visited, o.minEdgeWeight,
                         current.activationScore),
                     sourceNodeIds, g)
    IN IF Opt_ExceedsDepth(current, o.maxDepth)
       THEN [s EXCEPT !.queue = rest, !.last = "depth"]
       ELSE IF Opt_BelowFloor(current)
       THEN [s EXCEPT !.queue = rest, !.last = "floor"]
       ELSE IF Opt_IsDuplicate(current, s.visitedPaths)
       THEN [s EXCEPT !.queue = rest, !.last = "duplicate"]
       ELSE [queue |-> rest \o pushed,
             activatedNodes |-> s.activatedNodes \cup {it.nodeId : it \in Range(pushed)},
             visitedPaths |-> s.visitedPaths \cup {PathSignature(current.path)},
             results |-> IF Len(current.path) > 1
                         THEN Append(s.results,
                                [nodeIds |-> current.path,
                                 distance |-> current.distance,
                                 pathScore |-> Opt_calculatePathScore(current.path, g),
                                 reasoning |-> generatePathReasoning(current.path, g)])
                         ELSE s.results,
             last |-> IF Len(current.path) > 1 THEN "reported" ELSE "expanded"]

Opt_Return(s, o) ==
    [paths |-> SortAndSlice(s.results, o.maxResults),
     activatedNodeCount |-> Cardinality(s.activatedNodes)]

RECURSIVE Opt_Run(_, _, _, _)
Opt_Run(g, sourceNodeIds, o, s) ==
    IF Opt_Running(s, o) THEN Opt_Run(g, sourceNodeIds, o, Opt_Step(g, sourceNodeIds, o, s))
    ELSE s

Opt_findBoundedPaths(g, sourceNodeIds, options) ==
    LET o == WithDefaults(options)
    IN Opt_Return(Opt_Run(g, sourceNodeIds, o, Opt_Seed(g, sourceNodeIds)), o)

-----------------------------------------------------------------------------
(* GraphIndexer: answering a query.  A query is the list of its
   whitespace-separated terms; the empty query is the one empty term. *)

NodeMatchesTerm(node, term) ==
    \/ \E w \in Range(node.title \o node.summary) : IsSubstring(term, Lower(w))
    \/ Includes(KeywordsOf(node), term)

MatchCount(node, query) ==
    Len(Filter([i \in 1..Len(query) |-> Lower(query[i])],
               LAMBDA term : NodeMatchesTerm(node, term)))

(* A source finder that takes every node, matching or not. *)
EveryNodeAsSource(query, nodes) ==
    [i \in 1..Len(nodes) |-> [node |-> nodes[i], relevanceScore |-> MatchCount(nodes[i], query)]]

(* relevantNodes.push(node) after node.relevanceScore = matchCount: the
   node of the index itself is scored and pushed. *)
PushScoredInPlace(node, matchCount) ==
    [pushed |-> [node |-> node, relevanceScore |-> matchCount],
     left   |-> [relevanceScore |-> matchCount] @@ node]

(* relevantNodes.push({ ...node, relevanceScore: matchCount }): what is
   pushed, and the node of the index as the statement leaves it *)
PushScoredCopy(node, matchCount) ==
    [pushed |-> [node |-> node, relevanceScore |-> matchCount],
     left   |-> node]

findQuerySources(query, nodes) ==
    LET scored == [i \in 1..Len(nodes) |->
                      PushScoredCopy(nodes[i], MatchCount(nodes[i], query)).pushed]
        relevantNodes == Filter(scored, LAMBDA r : r.relevanceScore > 0)
    IN StableSort(relevantNodes, LAMBDA r : <<QInt(-r.relevanceScore), QZero>>)

(* The nodes array handed to findQuerySources, as the call leaves it: the
   loop pushes copies and the sort orders relevantNodes, a fresh array. *)
NodesAfterFindQuerySources(query, nodes) ==
    [i \in 1..Len(nodes) |->
        IF MatchCount(nodes[i], query) > 0
        THEN PushScoredCopy(nodes[i], MatchCount(nodes[i], query)).left
        ELSE nodes[i]]

SourceIdsFor(query, g) ==
    LET sourceNodes == findQuerySources(query, g.nodes)
    IN [i \in 1..Len(sourceNodes) |-> sourceNodes[i].node.nodeId]

(* [...new Set(list)]: first occurrences, in order *)
Unique(list) ==
    Filter([i \in 1..Len(list) |->
               IF \E j \in 1..(i - 1) : list[j] = list[i] THEN Undefined ELSE <<list[i]>>],
           LAMBDA x : x # Undefined)

NodeListOf(paths) ==
    LET uniq == Unique(Flatten([i \in 1..Len(paths) |-> paths[i].nodeIds]))
    IN [i \in 1..Len(uniq) |-> uniq[i][1]]

SearchOptions(config) ==
    [maxDepth |-> config.maxDepth, maxResults |-> config.maxResults,
     minEdgeWeight |-> config.minEdgeWeight]

EmptySearchResult == [paths |-> <<>>, nodeList |-> <<>>]

(* nodeIds.map(find).filter(Boolean).map(...): ids the graph does not hold
   are dropped. *)
retrieveContent(g, nodeIds) ==
    LET found == Filter(nodeIds, LAMBDA id : HasNode(g, id))
    IN [i \in 1..Len(found) |->
          [nodeId |-> found[i],
           title |-> FindNode(g, found[i]).title,
           content |-> FindNode(g, found[i]).content,
           summary |-> FindNode(g, found[i]).summary]]

(* The context string, '### title\ncontent' blocks joined by blank lines,
   as the list of its blocks; '' is the empty list. *)
formatContext(contents) ==
    [i \in 1..Len(contents) |->
        [heading |-> <<"###">> \o contents[i].title, body |-> contents[i].content]]

-----------------------------------------------------------------------------
(* GraphOfThought: choosing how to index *)

(* 0 / 0 *)
NaN == <<0, 0>>

SectionMaxLength == 100
ComplexityLengthScale == 500
CrossReferenceWeight == 2
SectionRatioWeight == <<1, 2>>
DefaultAutoSwitchThreshold == <<1, 5>>

(* p.includes('see') || p.includes('refer') || p.includes('section') *)
MentionsReference(p) ==
    \E w \in Range(ParagraphTokens(p)) :
        \E r \in {"see", "refer", "section"} : r # "" /\ IsSubstring(r, w)

(* p.startsWith('#') || /^\d+\./.test(p.trim()) || p.length < 100 *)
LooksLikeSection(p) ==
    \/ p.lead = "hash"
    \/ p.lead = "num" /\ p.depth >= 2
    \/ ParagraphLength(p) < SectionMaxLength

analyzeDocument(text) ==
    LET paragraphs == splitIntoParagraphs(text)
        n == Len(paragraphs)
        sections == Filter(paragraphs, LooksLikeSection)
        crossReferences == Len(Filter(paragraphs, MentionsReference))
        total == QSum([i \in 1..n |-> QInt(ParagraphLength(paragraphs[i]))])
    IN IF n = 0
       THEN [crossReferenceRatio |-> NaN, avgSectionLength |-> NaN,
             sectionCount |-> 0, complexityScore |-> NaN]
       ELSE LET avgLength == QDivInt(total, n)
            IN [crossReferenceRatio |-> Q(crossReferences, n),
                avgSectionLength |-> avgLength,
                sectionCount |-> Len(sections),
                complexityScore |->
                    QMin(QSum(<<QMul(Q(crossReferences, n), QInt(CrossReferenceWeight)),
                                QMul(Q(Len(sections), n), SectionRatioWeight),
                                QMin(QDivInt(avgLength, ComplexityLengthScale), QOne)>>),
                         QOne)]

(* What calling an async function gives its caller: a Promise of the value. *)
PromiseOf(value) == [promise |-> value]

(* object.name: undefined when the object has no such property *)
ReadProperty(object, name) == IF name \in DOMAIN object THEN object[name] ELSE Undefined

(* a > b on numbers: false when either is undefined or NaN *)
NumberGt(a, b) ==
    /\ a # Undefined /\ a # NaN
    /\ b # Undefined /\ b # NaN
    /\ QLt(b, a)

selectIndexingMode(documentStats, config) ==
    LET threshold == IF "autoSwitchThreshold" \in DOMAIN config.hybridMode
                     THEN config.hybridMode.autoSwitchThreshold
                     ELSE DefaultAutoSwitchThreshold
    IN IF NumberGt(ReadProperty(documentStats, "complexityScore"), threshold) THEN "graph"
       ELSE IF config.hybridMode.fallbackToTree THEN "tree"
       ELSE "graph"

(* index: the mode for a call with the given forceMode ("none" when the
   option is absent).  analyzeDocument is async and is called without await. *)
GoT_Mode(text, forceMode, config) ==
    IF forceMode = "graph" THEN "graph"
    ELSE IF forceMode = "tree" THEN "tree"
    ELSE selectIndexingMode(PromiseOf(analyzeDocument(text)), config)

(* identifySections as a whole; ids[k] is what generateNodeId returns in the
   iteration for paragraph k. *)
RECURSIVE TG_Loop(_, _, _)
TG_Loop(s, ids, config) ==
    IF s.next > Len(s.paragraphs) THEN s
    ELSE TG_Loop(TG_Step(s, ids[s.next], config), ids, config)

identifySections(paragraphs, ids, config) == TG_Sections(TG_Loop(TG_Begin(paragraphs), ids, config))

(* TreeIndex.nodes of generateTree *)
generateTree(text, title, ids, rootId, config) ==
    buildNodes(identifySections(splitIntoParagraphs(text), ids, config), title, rootId, config)

RootSummary == <<"Root", "document", "node">>
ConvertedLevel == 1

convertTreeToGraph(treeNodes, title, rootId) ==
    LET nodes == [i \in 1..Len(treeNodes) |->
                     [nodeId |-> treeNodes[i].nodeId,
                      title |-> treeNodes[i].title,
                      content |-> IF treeNodes[i].text # <<>> THEN treeNodes[i].text
                                  ELSE treeNodes[i].summary,
                      summary |-> treeNodes[i].summary,
                      type |-> "section",
                      position |-> [start |-> treeNodes[i].startIndex,
                                    end |-> treeNodes[i].endIndex],
                      level |-> ConvertedLevel,
                      keywords |-> Undefined,
                      centrality |-> Undefined]]
        rootNode == [nodeId |-> rootId, title |-> title,
                     content |-> Flatten([i \in 1..Len(nodes) |-> nodes[i].content]),
                     summary |-> RootSummary,
                     type |-> "document",
                     position |-> [start |-> 0, end |-> Len(nodes) - 1],
                     level |-> 0, keywords |-> Undefined, centrality |-> Undefined]
    IN [nodes |-> <<rootNode>> \o nodes,
        edges |-> [i \in 1..Len(nodes) |->
                      [from |-> rootId, to |-> nodes[i].nodeId,
                       weight |-> ParentChildWeight, type |-> "parent-child"]]]

-----------------------------------------------------------------------------
(* Inputs *)

MaxParagraphs == 3
MaxSources == 2
MaxQueryParagraphs == 2

DocumentTitle == <<"Notes">>

Heading(depth, words) == [lead |-> "hash", depth |-> depth, words |-> words, label |-> FALSE]

Body(words) == [lead |-> "none", depth |-> 0, words |-> words, label |-> FALSE]

GraphParagraphs ==
    {Heading(1, <<"graph", "graph", "graph", "data">>),
     Heading(1, <<"index", "index", "index", "index", "data">>),
     Heading(2, <<"data", "data", "Data">>),
     Heading(2, <<"Data">>),
     Body(<<"some", "graph", "text">>)}

RECURSIVE SeqsUpTo(_, _)
SeqsUpTo(S, n) ==
    IF n = 0 THEN {<<>>}
    ELSE LET shorter == SeqsUpTo(S, n - 1)
         IN shorter \cup {Append(q, x) : q \in {r \in shorter : Len(r) = n - 1}, x \in S}

Contents == SeqsUpTo(GraphParagraphs, MaxParagraphs)

Configs ==
    [maxDepth : {1, DefaultMaxDepth},
     maxResults : {DefaultMaxResults},
     enableCrossReferences : BOOLEAN,
     precomputeRelationships : BOOLEAN,
     minEdgeWeight : {DefaultMinEdgeWeight}]

DefaultConfig ==
    [maxDepth |-> DefaultMaxDepth, maxResults |-> DefaultMaxResults,
     enableCrossReferences |-> TRUE, precomputeRelationships |-> TRUE,
     minEdgeWeight |-> DefaultMinEdgeWeight]

Queries == {<<"data">>, <<"Index", "graph">>, <<"missing">>}

(* '' and ' ' through split(/\s+/): [''] and ['', ''] *)
EmptyQuery == <<"">>
WhitespaceQuery == <<"", "">>

(* The queries put to GraphIndexer.search *)
SearchQueries == Queries \cup {EmptyQuery, WhitespaceQuery}

NoGraph == [nodes |-> <<>>, edges |-> <<>>]
NoCall == [variant |-> "none"]
NoState == [last |-> "none"]
NoOut == [kind |-> "none"]

-----------------------------------------------------------------------------
(* The calls, as actions *)

(* GraphIndexer.index *)
Index ==
    /\ pc = "start"
    /\ graph' = GI_index(content, DocumentTitle, cfg)
    /\ pc' = "indexed"
    /\ UNCHANGED <<cfg, content, tree, call, st, out>>

(* GraphIndexer.search up to its await: no source, or the baseline search
   seeded with the sources found *)
Search(query) ==
    /\ pc = "indexed"
    /\ LET sourceIds == SourceIdsFor(query, graph)
       IN IF Len(sourceIds) = 0
          THEN /\ out' = [kind |-> "search", value |-> EmptySearchResult]
               /\ call' = [variant |-> "none", via |-> "search", query |-> query,
                           sources |-> sourceIds]
               /\ pc' = "returned"
               /\ st' = st
          ELSE /\ call' = [variant |-> "baseline", via |-> "search", query |-> query,
                           sources |-> sourceIds,
                           options |-> WithDefaults(SearchOptions(cfg))]
               /\ st' = BMSSP_Seed(graph, sourceIds)
               /\ pc' = "searching"
               /\ out' = out
    /\ graph' = [graph EXCEPT !.nodes = NodesAfterFindQuerySources(query, graph.nodes)]
    /\ UNCHANGED <<cfg, content, tree>>

(* BMSSPAlgorithm.findBoundedPaths called by a client: options and queue set up *)
CallBaseline(sourceNodeIds, options) ==
    /\ pc = "indexed"
    /\ call' = [variant |-> "baseline", via |-> "client", sources |-> sourceNodeIds,
                options |-> WithDefaults(options)]
    /\ st' = BMSSP_Seed(graph, sourceNodeIds)
    /\ pc' = "searching"
    /\ UNCHANGED <<cfg, content, graph, tree, out>>

(* OptimizedBMSSPAlgorithm.findBoundedPaths called by a client *)
CallSelective(sourceNodeIds, options) ==
    /\ pc = "indexed"
    /\ call' = [variant |-> "selective", via |-> "client", sources |-> sourceNodeIds,
                options |-> WithDefaults(options)]
    /\ st' = Opt_Seed(graph, sourceNodeIds)
    /\ pc' = "searching"
    /\ UNCHANGED <<cfg, content, graph, tree, out>>

BaselineIteration ==
    /\ pc = "searching"
    /\ call.variant = "baseline"
    /\ BMSSP_Running(st, call.options)
    /\ st' = BMSSP_Step(graph, call.options, st)
    /\ UNCHANGED <<pc, cfg, content, graph, tree, call, out>>

SelectiveIteration ==
    /\ pc = "searching"
    /\ call.variant = "selective"
    /\ Opt_Running(st, call.options)
    /\ st' = Opt_Step(graph, call.sources, call.options, st)
    /\ UNCHANGED <<pc, cfg, content, graph, tree, call, out>>

(* The loop has ended: sort, slice, return; search wraps the paths. *)
BaselineReturn ==
    /\ pc = "searching"
    /\ call.variant = "baseline"
    /\ ~BMSSP_Running(st, call.options)
    /\ LET paths == BMSSP_Return(st, call.options)
       IN out' = IF call.via = "search"
                 THEN [kind |-> "search",
                       value |-> [paths |-> paths, nodeList |-> NodeListOf(paths)]]
                 ELSE [kind |-> "paths", value |-> paths]
    /\ pc' = "returned"
    /\ UNCHANGED <<cfg, content, graph, tree, call, st>>

SelectiveReturn ==
    /\ pc = "searching"
    /\ call.variant = "selective"
    /\ ~Opt_Running(st, call.options)
    /\ out' = [kind |-> "selective", value |-> Opt_Return(st, call.options)]
    /\ pc' = "returned"
    /\ UNCHANGED <<cfg, content, graph, tree, call, st>>

(* GraphIndexer.retrieve after its awaited search: retrieveContent and
   formatContext *)
Retrieve ==
    /\ pc = "returned"
    /\ out.kind = "search"
    /\ LET contents == retrieveContent(graph, out.value.nodeList)
       IN out' = [kind |-> "retrieve",
                  value |-> [context |-> formatContext(contents),
                             contents |-> contents,
                             searchResult |-> out.value]]
    /\ pc' = "retrieved"
    /\ UNCHANGED <<cfg, content, graph, tree, call, st>>

-----------------------------------------------------------------------------
(* Spec: a document is indexed by GraphIndexer and queried, through
   GraphIndexer.search or by handing the sources of a query to the selective
   search. *)

Init ==
    /\ pc = "start"
    /\ cfg \in Configs
    /\ content \in Contents
    /\ graph = NoGraph
    /\ tree = <<>>
    /\ call = NoCall
    /\ st = NoState
    /\ out = NoOut

Next ==
    \/ Index
    \/ \E query \in SearchQueries : Search(query)
    \/ \E query \in Queries :
          /\ pc = "indexed"
          /\ Len(SourceIdsFor(query, graph)) > 0
          /\ CallSelective(SourceIdsFor(query, graph), SearchOptions(cfg))
    \/ BaselineIteration
    \/ BaselineReturn
    \/ SelectiveIteration
    \/ SelectiveReturn
    \/ Retrieve

Spec == Init /\ [][Next]_vars

-----------------------------------------------------------------------------
(* SpecBMSSP: a client hands a graph of its own to either search.  The
   graphs have three section nodes and any selection, in order, of five
   edges: two edges between the same two nodes, a cycle and a self-loop
   among them.  A source list may repeat an id or name a node the graph
   does not hold. *)

ClientNode(id, start, keywords, centrality) ==
    [nodeId |-> id, title |-> <<id>>, content |-> <<>>, summary |-> <<id>>,
     type |-> "section",
     position |-> [start |-> start, end |-> start], level |-> 1,
     keywords |-> keywords, centrality |-> centrality]

ClientNodes ==
    <<ClientNode("a", 0, <<"data">>, <<1, 2>>),
      ClientNode("b", 1, <<"data", "graph">>, <<3, 10>>),
      ClientNode("c", 2, <<"graph">>, Undefined)>>

ClientEdges ==
    <<[from |-> "a", to |-> "b", weight |-> <<1, 2>>, type |-> "semantic"],
      [from |-> "b", to |-> "a", weight |-> <<4, 5>>, type |-> "reference"],
      [from |-> "b", to |-> "c", weight |-> <<1, 1>>, type |-> "cross-link"],
      [from |-> "c", to |-> "a", weight |-> <<3, 10>>, type |-> "semantic"],
      [from |-> "a", to |-> "a", weight |-> <<1, 1>>, type |-> "cross-link"]>>

ClientGraphs ==
    {[nodes |-> ClientNodes,
      edges |-> Filter([i \in 1..Len(ClientEdges) |-> [e |-> ClientEdges[i], i |-> i]],
                       LAMBDA x : x.i \in chosen)]
        : chosen \in SUBSET (1..Len(ClientEdges))}

EdgesOf(marked) == [i \in 1..Len(marked) |-> marked[i].e]

ClientSourceLists == SeqsUpTo({"a", "b", "ghost"}, MaxSources)

ClientOption(maxDepth, maxResults, minEdgeWeight) ==
    [maxDepth |-> maxDepth, maxResults |-> maxResults, minEdgeWeight |-> minEdgeWeight]

(* <<>> is a call without options. *)
ClientOptions ==
    {<<>>,
     ClientOption(1, 3, DefaultMinEdgeWeight),
     ClientOption(2, 1, DefaultMinEdgeWeight),
     ClientOption(2, 3, <<3, 5>>),
     ClientOption(1, 1, <<3, 5>>)}

InitBMSSP ==
    /\ pc = "indexed"
    /\ cfg = DefaultConfig
    /\ content = <<>>
    /\ \E g \in ClientGraphs : graph = [nodes |-> g.nodes, edges |-> EdgesOf(g.edges)]
    /\ tree = <<>>
    /\ call = NoCall
    /\ st = NoState
    /\ out = NoOut

NextBMSSP ==
    \/ \E sourceNodeIds \in ClientSourceLists, options \in ClientOptions :
          CallBaseline(sourceNodeIds, options)
    \/ \E sourceNodeIds \in ClientSourceLists, options \in ClientOptions :
          CallSelective(sourceNodeIds, options)
    \/ BaselineIteration
    \/ BaselineReturn
    \/ SelectiveIteration
    \/ SelectiveReturn

SpecBMSSP == InitBMSSP /\ [][NextBMSSP]_vars

-----------------------------------------------------------------------------
(* SpecTree: TreeGenerator.generateTree on a document *)

Numbered(depth, words) == [lead |-> "num", depth |-> depth, words |-> words, label |-> FALSE]

Label(words) == [lead |-> "none", depth |-> 0, words |-> words, label |-> TRUE]

(* "# graph", "## data", "1.2.3 index", a body paragraph, "Notes:", and a
   paragraph that only the configured pattern /^Chapter/ makes a heading *)
TreeParagraphs ==
    {Heading(1, <<"graph">>),
     Heading(2, <<"data">>),
     Numbered(3, <<"index">>),
     Body(<<"some", "graph", "text.">>),
     Label(<<"Notes:">>),
     Body(<<"Chapter", "text.">>)}

TreeContents == SeqsUpTo(TreeParagraphs, MaxParagraphs)

TreeConfigs ==
    {[headingPatterns |-> <<>>, maxSummaryLength |-> TG_MaxSummaryLength],
     [headingPatterns |-> <<"Chapter">>, maxSummaryLength |-> TG_MaxSummaryLength]}

(* Values of Math.random().toString(36).substring(2, 10) *)
TreeNodeIds == {"k3f9x0ab", "q7zx41cd"}

(* generateTree up to the loop of identifySections *)
GenerateTree ==
    /\ pc = "start"
    /\ st' = TG_Begin(splitIntoParagraphs(content))
    /\ pc' = "segmenting"
    /\ UNCHANGED <<cfg, content, graph, tree, call, out>>

(* One iteration of the loop of identifySections *)
SegmentParagraph ==
    /\ pc = "segmenting"
    /\ st.next <= Len(st.paragraphs)
    /\ \E nodeId \in TreeNodeIds : st' = TG_Step(st, nodeId, cfg)
    /\ UNCHANGED <<pc, cfg, content, graph, tree, call, out>>

(* The end of identifySections, then buildNodes and the return *)
BuildTree ==
    /\ pc = "segmenting"
    /\ st.next > Len(st.paragraphs)
    /\ \E nodeId \in TreeNodeIds :
          tree' = buildNodes(TG_Sections(st), DocumentTitle, nodeId, cfg)
    /\ pc' = "tree"
    /\ UNCHANGED <<cfg, content, graph, call, st, out>>

(* countNodes: traverse, with the counter it increments *)
RECURSIVE TG_CountTraverse(_, _)
TG_CountTraverse(nodeList, count) ==
    IF Len(nodeList) = 0 THEN count
    ELSE LET node == Head(nodeList)
             counted == count + 1
             below == IF Len(node.children) > 0
                      THEN TG_CountTraverse(node.children, counted)
                      ELSE counted
         IN TG_CountTraverse(Tail(nodeList), below)

(* A count of the nodes of the top level only. *)
CountTopLevel(nodes) == Len(nodes)

countNodes(nodes) == TG_CountTraverse(nodes, 0)

(* getMaxDepth: the loop of traverse over nodeList at a depth *)
RECURSIVE TG_DepthTraverse(_, _, _)
RECURSIVE TG_DepthLoop(_, _, _)
TG_DepthLoop(nodeList, depth, maxDepth) ==
    IF Len(nodeList) = 0 THEN maxDepth
    ELSE LET node == Head(nodeList)
             below == IF Len(node.children) > 0
                      THEN TG_DepthTraverse(node.children, depth + 1, maxDepth)
                      ELSE maxDepth
         IN TG_DepthLoop(Tail(nodeList), depth, below)

(* getMaxDepth: traverse, with the maximum it updates *)
TG_DepthTraverse(nodeList, depth, maxDepth) ==
    TG_DepthLoop(nodeList, depth, IF depth > maxDepth THEN depth ELSE maxDepth)

getMaxDepth(nodes) == TG_DepthTraverse(nodes, 1, 0)

(* flattenTree: traverse, with the result it pushes to *)
RECURSIVE TG_FlattenTraverse(_, _)
TG_FlattenTraverse(nodeList, result) ==
    IF Len(nodeList) = 0 THEN result
    ELSE LET node == Head(nodeList)
             pushed == Append(result, node)
             below == IF Len(node.children) > 0
                      THEN TG_FlattenTraverse(node.children, pushed)
                      ELSE pushed
         IN TG_FlattenTraverse(Tail(nodeList), below)

flattenTree(nodes) == TG_FlattenTraverse(nodes, <<>>)

(* A client measures the tree generateTree returned. *)
MeasureTree ==
    /\ pc = "tree"
    /\ out' = [kind |-> "measures",
               countNodes |-> countNodes(tree),
               getMaxDepth |-> getMaxDepth(tree),
               flattenTree |-> flattenTree(tree)]
    /\ pc' = "measured"
    /\ UNCHANGED <<cfg, content, graph, tree, call, st>>

InitTree ==
    /\ pc = "start"
    /\ cfg \in TreeConfigs
    /\ content \in TreeContents
    /\ graph = NoGraph
    /\ tree = <<>>
    /\ call = NoCall
    /\ st = NoState
    /\ out = NoOut

NextTree == GenerateTree \/ SegmentParagraph \/ BuildTree \/ MeasureTree

SpecTree == InitTree /\ [][NextTree]_vars

-----------------------------------------------------------------------------
(* SimpleSearch: keyword search of a tree *)

SS_DefaultMaxResults == 10
TitleTermScore == 10
TitleContainsScore == 5
SummaryTermScore == 2
TextTermScore == <<1, 2>>
TextScoreCap == 5
PhraseScore == 15

(* One token through toLowerCase, replace(/[^\w\s]/g, ' ') and split(/\s+/):
   the terms it leaves. *)
TermsOfToken(w) ==
    CASE w \in {"#", "...", ""} -> <<>>
      [] w = "text." -> <<"text">>
      [] w \in {"Notes:", "notes:"} -> <<"notes">>
      [] OTHER -> <<Lower(w)>>

tokenize(tokens) ==
    Filter(Flatten([i \in 1..Len(tokens) |-> TermsOfToken(tokens[i])]),
           LAMBDA term : Len(term) > 1)

(* text.startsWith(term), text.endsWith(term) for one token *)
StartsWith(w, term) ==
    term = w \/ <<term, w>> \in {<<"dat", "data">>, <<"set", "setup">>,
                                 <<"text", "text.">>, <<"notes", "notes:">>}

EndsWith(w, term) == term = w \/ <<term, w>> \in {<<"ata", "data">>}

(* node.title.toLowerCase().includes(queryPhrase), the phrase being the
   terms joined by one space: the empty phrase is in every title, one term
   is in a title when it is in one of its words, and several terms are when
   they run along consecutive words. *)
TitleIncludesPhrase(title, terms) ==
    LET words == [i \in 1..Len(title) |-> Lower(title[i])]
        n == Len(terms)
    IN IF n = 0 THEN TRUE
       ELSE IF n = 1 THEN \E i \in 1..Len(words) : IsSubstring(terms[1], words[i])
       ELSE \E i \in 1..(Len(words) - n + 1) :
               /\ EndsWith(words[i], terms[1])
               /\ StartsWith(words[i + n - 1], terms[n])
               /\ \A k \in 2..(n - 1) : words[i + k - 1] = terms[k]

CountOf(terms, term) == Len(Filter(terms, LAMBDA t : t = term))

(* scoreNode: what one query term adds to the score *)
TermScore(node, titleTerms, summaryTerms, textTerms, queryTerm) ==
    QSum(<<IF Includes(titleTerms, queryTerm) THEN QInt(TitleTermScore) ELSE QZero,
           IF TitleIncludesPhrase(node.title, <<queryTerm>>)
           THEN QInt(TitleContainsScore) ELSE QZero,
           QInt(CountOf(summaryTerms, queryTerm) * SummaryTermScore),
           QMin(QMul(QInt(CountOf(textTerms, queryTerm)), TextTermScore),
                QInt(TextScoreCap))>>)

scoreNode(node, queryTerms) ==
    LET titleTerms == tokenize(node.title)
        summaryTerms == tokenize(node.summary)
        textTerms == IF Len(node.text) > 0
                     THEN tokenize(Flatten([i \in 1..Len(node.text) |->
                                               ParagraphTokens(node.text[i])]))
                     ELSE <<>>
        perTerm == [i \in 1..Len(queryTerms) |->
                       TermScore(node, titleTerms, summaryTerms, textTerms, queryTerms[i])]
    IN QAdd(QSum(perTerm),
            IF TitleIncludesPhrase(node.title, queryTerms)
            THEN QInt(PhraseScore) ELSE QZero)

SS_flattenTree(nodes) == TG_FlattenTraverse(nodes, <<>>)

(* A filter that keeps every scored node. *)
KeepEveryScore(scoredNodes) == scoredNodes

(* scoredNodes.filter((s) => s.score > 0) *)
KeepPositiveScores(scoredNodes) == Filter(scoredNodes, LAMBDA s : QLt(QZero, s.score))

(* SimpleSearch.search: topNodes *)
SS_topNodes(nodes, query, maxResults) ==
    LET queryTerms == tokenize(query)
        allNodes == SS_flattenTree(nodes)
        scoredNodes == [i \in 1..Len(allNodes) |->
                           [node |-> allNodes[i],
                            score |-> scoreNode(allNodes[i], queryTerms)]]
    IN Slice(StableSort(KeepPositiveScores(scoredNodes),
                        LAMBDA s : <<QNeg(s.score), QZero>>),
             maxResults)

(* generateThinking: the count and the top three matches it names *)
generateThinking(query, scoredNodes) ==
    [query |-> query, found |-> Len(scoredNodes),
     topMatches |-> [i \in 1..Min(3, Len(scoredNodes)) |->
                        [title |-> scoredNodes[i].node.title,
                         score |-> scoredNodes[i].score]]]

-----------------------------------------------------------------------------
(* SpecTreeSearch: a SimpleSearch is put to a tree that generateTree built. *)

TreeQueries ==
    {<<"graph">>, <<"Chapter", "text">>, <<"a">>, <<"missing">>, EmptyQuery, WhitespaceQuery}

SearchMaxResults == {2, SS_DefaultMaxResults}

(* The documents searched: headings, a label, body text, a configured
   heading *)
SearchContents ==
    SeqsUpTo(TreeParagraphs \ {Numbered(3, <<"index">>)}, MaxParagraphs)

SearchTreeIds == [i \in 1..MaxParagraphs |-> IF i % 2 = 1 THEN "k3f9x0ab" ELSE "q7zx41cd"]

(* SimpleSearch.search *)
TreeSearch(query, maxResults) ==
    /\ pc = "tree"
    /\ LET topNodes == SS_topNodes(tree, query, maxResults)
       IN /\ st' = [last |-> "search", topNodes |-> topNodes]
          /\ out' = [kind |-> "tree-search",
                     thinking |-> generateThinking(query, topNodes),
                     nodeList |-> [i \in 1..Len(topNodes) |-> topNodes[i].node.nodeId]]
    /\ call' = [variant |-> "simple", via |-> "client", query |-> query,
                maxResults |-> maxResults]
    /\ pc' = "tree-searched"
    /\ UNCHANGED <<cfg, content, graph, tree>>

InitTreeSearch ==
    /\ pc = "tree"
    /\ cfg \in TreeConfigs
    /\ content \in SearchContents
    /\ tree = generateTree(content, DocumentTitle, SearchTreeIds, "q7zx41cd", cfg)
    /\ graph = NoGraph
    /\ call = NoCall
    /\ st = NoState
    /\ out = NoOut

NextTreeSearch ==
    \E query \in TreeQueries, maxResults \in SearchMaxResults : TreeSearch(query, maxResults)

SpecTreeSearch == InitTreeSearch /\ [][NextTreeSearch]_vars

-----------------------------------------------------------------------------
(* SpecGoT: GraphOfThought.index on a document, with or without forceMode *)

(* A chunk of white space between two blank lines *)
Blank == Body(<<>>)

GoTParagraphs ==
    {Heading(1, <<"graph">>),
     Body(<<"some", "graph", "text.">>),
     Body(<<"see", "data">>),
     Blank}

GoTContents == SeqsUpTo(GoTParagraphs, MaxParagraphs)

GoTConfigs ==
    [indexer : {DefaultConfig},
     hybridMode : [autoSwitchThreshold : {DefaultAutoSwitchThreshold, <<3, 5>>},
                   fallbackToTree : BOOLEAN]]

ForceModes == {"none", "graph", "tree"}

(* new TreeGenerator() *)
TG_DefaultConfig == [headingPatterns |-> <<>>, maxSummaryLength |-> TG_MaxSummaryLength]

(* Values of `root_${Math.random().toString(36).substring(2, 8)}` *)
GoTRootIds == {"root_k3f9x0", "root_q7zx41"}

(* index up to its first await: the mode is chosen *)
GoT_Index(forceMode) ==
    /\ pc = "start"
    /\ LET mode == GoT_Mode(content, forceMode, cfg)
       IN /\ st' = [mode |-> mode, forceMode |-> forceMode, last |-> "mode"]
          /\ pc' = IF mode = "graph" THEN "got-graph" ELSE "got-tree"
    /\ UNCHANGED <<cfg, content, graph, tree, call, out>>

(* index = await this.graphIndexer.index(content, title, description) *)
GoT_GraphIndex ==
    /\ pc = "got-graph"
    /\ graph' = GI_index(content, DocumentTitle, cfg.indexer)
    /\ pc' = "indexed"
    /\ UNCHANGED <<cfg, content, tree, call, st, out>>

(* treeIndex = await this.treeGenerator.generateTree(...);
   index = this.convertTreeToGraph(treeIndex) *)
GoT_TreeIndex ==
    /\ pc = "got-tree"
    /\ \E ids \in [1..MaxParagraphs -> TreeNodeIds], rootId \in TreeNodeIds :
          tree' = generateTree(content, DocumentTitle, ids, rootId, TG_DefaultConfig)
    /\ \E rootId \in GoTRootIds : graph' = convertTreeToGraph(tree', DocumentTitle, rootId)
    /\ pc' = "indexed"
    /\ UNCHANGED <<cfg, content, call, st, out>>

InitGoT ==
    /\ pc = "start"
    /\ cfg \in GoTConfigs
    /\ content \in GoTContents
    /\ graph = NoGraph
    /\ tree = <<>>
    /\ call = NoCall
    /\ st = NoState
    /\ out = NoOut

NextGoT ==
    \/ \E forceMode \in ForceModes : GoT_Index(forceMode)
    \/ GoT_GraphIndex
    \/ GoT_TreeIndex

SpecGoT == InitGoT /\ [][NextGoT]_vars

-----------------------------------------------------------------------------
(* SpecQueries: one GraphOfThought, one built index, and two callers whose
   search and retrieve calls are interleaved at the awaits.  A call runs
   from its start to the await of findBoundedPaths in one step
   (findBoundedPaths itself has no await), and each later step is the code
   between two awaits.  pc, call, st and out hold one value per caller: st is
   the caller's frame, the locals of its call. *)

Callers == {"first", "second"}
Operations == {"search", "retrieve"}

QueryParagraphs ==
    {Heading(1, <<"graph", "graph", "graph", "data">>),
     Heading(2, <<"Data">>)}

QueryContents == SeqsUpTo(QueryParagraphs, MaxQueryParagraphs)

QueryConfigs == {DefaultConfig}

NoFrame ==
    [paths |-> <<>>, searchResult |-> EmptySearchResult, contents |-> <<>>,
     context |-> <<>>]

(* Locals kept in one place for all calls: every call reads the frame of the
   first caller. *)
SharedFrame(frames, c) == frames["first"]

(* The locals a call reads when it resumes are those of its own invocation. *)
OwnFrame(frames, c) == frames[c]

(* GraphIndexer.search, run alone from start to end *)
GI_search(g, query, config) ==
    LET sourceIds == SourceIdsFor(query, g)
    IN IF Len(sourceIds) = 0 THEN EmptySearchResult
       ELSE LET paths == BMSSP_findBoundedPaths(g, sourceIds, SearchOptions(config))
            IN [paths |-> paths, nodeList |-> NodeListOf(paths)]

(* GraphIndexer.retrieve, run alone from start to end *)
GI_retrieve(g, query, config) ==
    LET searchResult == GI_search(g, query, config)
        contents == retrieveContent(g, searchResult.nodeList)
    IN [context |-> formatContext(contents), contents |-> contents,
        searchResult |-> searchResult]

(* GraphOfThought.retrieve: the result built from graphResult *)
GoT_RetrievalResult(graphResult) ==
    [context |-> graphResult.context,
     contents |-> graphResult.contents,
     searchResult |->
        [thinking |-> [i \in 1..Len(graphResult.searchResult.paths) |->
                          graphResult.searchResult.paths[i].reasoning],
         nodeList |-> graphResult.searchResult.nodeList]]

GoT_search(g, query, config) == GI_search(g, query, config)

GoT_retrieve(g, query, config) == GoT_RetrievalResult(GI_retrieve(g, query, config))

InFlight(c) == pc[c] \notin {"idle", "done"}

(* GraphOfThought.search / retrieve called: down to GraphIndexer.search,
   which finds the sources and either returns the empty result or calls
   findBoundedPaths and awaits it *)
Q_Call(c, operation, query) ==
    /\ pc[c] = "idle"
    /\ LET sourceIds == SourceIdsFor(query, graph)
           others == {d \in Callers \ {c} : InFlight(d)}
       IN /\ call' = [d \in Callers |->
                        IF d = c
                        THEN [operation |-> operation, query |-> query,
                              overlapped |-> others # {}]
                        ELSE IF d \in others
                        THEN [call[d] EXCEPT !.overlapped = TRUE]
                        ELSE call[d]]
          /\ IF Len(sourceIds) = 0
             THEN /\ st' = [st EXCEPT ![c] = NoFrame]
                  /\ pc' = [pc EXCEPT ![c] = "search-returned"]
             ELSE /\ st' = [st EXCEPT ![c] =
                              [NoFrame EXCEPT !.paths =
                                  BMSSP_findBoundedPaths(graph, sourceIds,
                                                         SearchOptions(cfg))]]
                  /\ pc' = [pc EXCEPT ![c] = "paths-awaited"]
    /\ graph' = [graph EXCEPT !.nodes = NodesAfterFindQuerySources(query, graph.nodes)]
    /\ UNCHANGED <<cfg, content, tree, out>>

(* GraphIndexer.search resumes with paths: nodeList, return *)
Q_SearchResumes(c) ==
    /\ pc[c] = "paths-awaited"
    /\ LET paths == OwnFrame(st, c).paths
       IN st' = [st EXCEPT ![c].searchResult =
                    [paths |-> paths, nodeList |-> NodeListOf(paths)]]
    /\ pc' = [pc EXCEPT ![c] = "search-returned"]
    /\ UNCHANGED <<cfg, content, graph, tree, call, out>>

(* GraphOfThought.search resumes with the result of GraphIndexer.search *)
Q_GoTSearchResumes(c) ==
    /\ pc[c] = "search-returned"
    /\ call[c].operation = "search"
    /\ out' = [out EXCEPT ![c] = [kind |-> "search",
                                  value |-> OwnFrame(st, c).searchResult]]
    /\ pc' = [pc EXCEPT ![c] = "done"]
    /\ UNCHANGED <<cfg, content, graph, tree, call, st>>

(* GraphIndexer.retrieve resumes with searchResult: retrieveContent,
   formatContext, return *)
Q_RetrieveResumes(c) ==
    /\ pc[c] = "search-returned"
    /\ call[c].operation = "retrieve"
    /\ LET contents == retrieveContent(graph, OwnFrame(st, c).searchResult.nodeList)
       IN st' = [st EXCEPT ![c].contents = contents,
                           ![c].context = formatContext(contents)]
    /\ pc' = [pc EXCEPT ![c] = "retrieve-returned"]
    /\ UNCHANGED <<cfg, content, graph, tree, call, out>>

(* GraphOfThought.retrieve resumes with graphResult *)
Q_GoTRetrieveResumes(c) ==
    /\ pc[c] = "retrieve-returned"
    /\ out' = [out EXCEPT ![c] = [kind |-> "retrieve",
                                  value |-> GoT_RetrievalResult(OwnFrame(st, c))]]
    /\ pc' = [pc EXCEPT ![c] = "done"]
    /\ UNCHANGED <<cfg, content, graph, tree, call, st>>

InitQueries ==
    /\ cfg \in QueryConfigs
    /\ content \in QueryContents
    /\ graph = GI_index(content, DocumentTitle, cfg)
    /\ tree = <<>>
    /\ pc = [c \in Callers |-> "idle"]
    /\ call = [c \in Callers |-> NoCall]
    /\ st = [c \in Callers |-> NoFrame]
    /\ out = [c \in Callers |-> NoOut]

NextQueries ==
    \/ \E c \in Callers, operation \in Operations, query \in Queries :
          Q_Call(c, operation, query)
    \/ \E c \in Callers : Q_SearchResumes(c)
    \/ \E c \in Callers : Q_GoTSearchResumes(c)
    \/ \E c \in Callers : Q_RetrieveResumes(c)
    \/ \E c \in Callers : Q_GoTRetrieveResumes(c)

SpecQueries == InitQueries /\ [][NextQueries]_vars

-----------------------------------------------------------------------------
(* Claims about the graph GraphIndexer.index builds and about queries on it *)

DocumentNodes(g) == Filter(g.nodes, LAMBDA n : n.type = "document")

IncomingParentChild(g, id) ==
    Filter(g.edges, LAMBDA e : e.to = id /\ e.type = "parent-child")

(* C1: in every graph index() has built, whatever the configuration, there
   is one document node, and every other node has exactly one incoming
   parent-child edge, which comes from the document node. *)
C1_OneParentChildEdgePerNode ==
    pc # "start" =>
        /\ Len(DocumentNodes(graph)) = 1
        /\ \A i \in 1..Len(graph.nodes) :
              graph.nodes[i].type # "document" =>
                  LET incoming == IncomingParentChild(graph, graph.nodes[i].nodeId)
                  IN /\ Len(incoming) = 1
                     /\ incoming[1].from = DocumentNodes(graph)[1].nodeId

RECURSIVE RangesNested(_)
RangesNested(node) ==
    /\ \A i \in 1..Len(node.children) :
          /\ node.startIndex <= node.children[i].startIndex
          /\ node.children[i].endIndex <= node.endIndex
          /\ RangesNested(node.children[i])
    /\ \A i, j \in 1..Len(node.children) :
          i < j => \/ node.children[i].endIndex < node.children[j].startIndex
                   \/ node.children[j].endIndex < node.children[i].startIndex

(* C2: in the tree generateTree returns, the index range of every child,
   the children of the document root included, lies within the range of
   its parent, and the ranges of siblings do not overlap. *)
C2_RangesNested ==
    pc = "tree" => \A i \in 1..Len(tree) : RangesNested(tree[i])

(* C7: in the selective search on a graph index() has built, every worklist
   entry that was enqueued for a neighbor has an activation score no greater
   than that of the entry it was expanded from. *)
C7_ActivationNonIncreasing ==
    (pc \in {"searching", "returned"} /\ call.variant = "selective") =>
        \A i \in 1..Len(st.queue) :
            Len(st.queue[i].path) > 1 =>
                QLe(st.queue[i].activationScore, st.queue[i].parentScore)

(* C8: the selective search accepts no path with more than maxDepth edges. *)
C8_WithinMaxDepthHops ==
    (pc \in {"searching", "returned"} /\ call.variant = "selective") =>
        \A i \in 1..Len(st.results) :
            Len(st.results[i].nodeIds) - 1 <= call.options.maxDepth

PathsOf(results) == {results[i].nodeIds : i \in 1..Len(results)}

(* C10: the paths GraphIndexer.search returns for a query are the paths the
   selective search returns for the same graph, sources and options. *)
C10_SearchIsSelective ==
    (pc = "returned" /\ out.kind = "search" /\ call.variant # "none") =>
        PathsOf(out.value.paths)
            = PathsOf(Opt_findBoundedPaths(graph, call.sources, SearchOptions(cfg)).paths)

-----------------------------------------------------------------------------
(* Claims about findBoundedPaths, both variants *)

InCall == pc \in {"searching", "returned"}

Looping ==
    /\ pc = "searching"
    /\ IF call.variant = "baseline" THEN BMSSP_Running(st, call.options)
       ELSE Opt_Running(st, call.options)

(* The entry the next iteration shifts off the sorted worklist *)
CurrentEntry ==
    IF call.variant = "baseline" THEN Head(BMSSP_SortQueue(st.queue))
    ELSE Head(Opt_SortQueue(st.queue))

ReturnedPaths ==
    IF pc # "returned" THEN <<>>
    ELSE IF out.kind = "paths" THEN out.value
    ELSE out.value.paths

(* The sums of edge weights that a walk along `path` can gather, one edge of
   the graph per step, in either stored direction *)
RECURSIVE PathDistances(_, _)
PathDistances(path, g) ==
    IF Len(path) < 2 THEN {QZero}
    ELSE {QAdd(e.weight, d) :
             e \in {x \in Range(g.edges) : JoinsPair(x, path[1], path[2])},
             d \in PathDistances(Tail(path), g)}

DistanceBounded(r) ==
    /\ QLe(r.distance, QInt(call.options.maxDepth))
    /\ r.distance \in PathDistances(r.nodeIds, graph)

(* C3: every accepted and every returned path has a distance, the sum of the
   weights of the edges it traversed, of at most maxDepth; an iteration
   whose entry exceeds maxDepth only drops the entry: nothing is reported,
   recorded as visited or enqueued. *)
C3_DistanceWithinMaxDepth ==
    /\ [](InCall =>
            /\ \A i \in 1..Len(st.results) : DistanceBounded(st.results[i])
            /\ \A i \in 1..Len(ReturnedPaths) : DistanceBounded(ReturnedPaths[i]))
    /\ [][(Looping /\ QLt(QInt(call.options.maxDepth), CurrentEntry.distance)) =>
            /\ st'.results = st.results
            /\ st'.visitedPaths = st.visitedPaths
            /\ Len(st'.queue) = Len(st.queue) - 1]_vars

C3_Witness ==
    /\ pc = "searching"
    /\ st.last = "depth"
    /\ \E i \in 1..Len(st.results) : QLt(QZero, st.results[i].distance)

NoRepeatedPath(results) ==
    \A i, j \in 1..Len(results) : i # j => results[i].nodeIds # results[j].nodeIds

(* C4: no two accepted paths, and no two returned paths, are the same
   sequence of node ids. *)
C4_NoDuplicatePaths ==
    InCall => NoRepeatedPath(st.results) /\ NoRepeatedPath(ReturnedPaths)

(* Two edges join the same two nodes, the entry of a path already accepted
   was discarded, and the call has returned. *)
C4_Witness ==
    /\ pc = "returned"
    /\ st.last = "duplicate"
    /\ Len(ReturnedPaths) > 0
    /\ \E i, j \in 1..Len(graph.edges) :
          i # j /\ JoinsPair(graph.edges[i], graph.edges[j].from, graph.edges[j].to)

(* C5: the accepted paths never number more than maxResults, and the
   returned list holds at most maxResults paths in non-increasing order of
   pathScore. *)
C5_SortedAndCapped ==
    InCall =>
        /\ Len(st.results) <= call.options.maxResults
        /\ Len(ReturnedPaths) <= call.options.maxResults
        /\ \A i \in 1..(Len(ReturnedPaths) - 1) :
              QLe(ReturnedPaths[i + 1].pathScore, ReturnedPaths[i].pathScore)

(* The loop stopped at maxResults with entries left, and sorting changed the
   order in which the paths had been accepted. *)
C5_Witness ==
    /\ pc = "returned"
    /\ Len(st.queue) > 0
    /\ Len(ReturnedPaths) = call.options.maxResults
    /\ \E i \in 1..Len(ReturnedPaths) : ReturnedPaths[i] # st.results[i]

WellFormedPath(r) ==
    /\ Len(r.nodeIds) >= 2
    /\ Includes(call.sources, r.nodeIds[1])
    /\ HasNode(graph, r.nodeIds[1])
    /\ \A i, j \in 1..Len(r.nodeIds) : i # j => r.nodeIds[i] # r.nodeIds[j]
    /\ \A i \in 1..(Len(r.nodeIds) - 1) :
          \E e \in Range(graph.edges) :
              /\ JoinsPair(e, r.nodeIds[i], r.nodeIds[i + 1])
              /\ QLe(call.options.minEdgeWeight, e.weight)

(* C6: every accepted and every returned path has at least two node ids,
   starts at a given source that the graph holds, repeats no id, and joins
   consecutive ids by an edge, in either direction, of weight at least
   minEdgeWeight. *)
C6_PathsWellFormed ==
    InCall =>
        /\ \A i \in 1..Len(st.results) : WellFormedPath(st.results[i])
        /\ \A i \in 1..Len(ReturnedPaths) : WellFormedPath(ReturnedPaths[i])

C6_Witness ==
    /\ pc = "returned"
    /\ \E i \in 1..Len(ReturnedPaths) : Len(ReturnedPaths[i].nodeIds) = 3
    /\ \E e \in Range(graph.edges) : QLt(e.weight, call.options.minEdgeWeight)

(* The worklist entries that expanding an entry at nodeId with the given
   visited set can still lead to, itself included: one per simple path that
   extends it, an edge counting once in each direction it can be taken. *)
RECURSIVE Extensions(_, _, _)
Extensions(g, nodeId, visited) ==
    LET onward == [i \in 1..Len(g.edges) |->
                     (IF g.edges[i].from = nodeId /\ g.edges[i].to \notin visited
                      THEN Extensions(g, g.edges[i].to, visited \cup {g.edges[i].to})
                      ELSE 0)
                     + (IF g.edges[i].to = nodeId /\ g.edges[i].from \notin visited
                        THEN Extensions(g, g.edges[i].from, visited \cup {g.edges[i].from})
                        ELSE 0)]
        total[i \in 0..Len(onward)] == IF i = 0 THEN 0 ELSE total[i - 1] + onward[i]
    IN 1 + total[Len(onward)]

OpenWork ==
    LET each == [i \in 1..Len(st.queue) |->
                    Extensions(graph, st.queue[i].nodeId, st.queue[i].visited)]
        total[i \in 0..Len(each)] == IF i = 0 THEN 0 ELSE total[i - 1] + each[i]
    IN total[Len(each)]

(* C9: findBoundedPaths terminates, cycles or not: every iteration of its
   loop lowers the number of worklist entries still to come, a natural
   number, so the worklist empties unless maxResults ends the loop first. *)
C9_Terminates == [][Looping => OpenWork' < OpenWork]_vars

HasCycle(g) ==
    \E a, b, c \in {g.nodes[i].nodeId : i \in 1..Len(g.nodes)} :
        /\ a # b /\ b # c /\ a # c
        /\ \E e \in Range(g.edges) : JoinsPair(e, a, b)
        /\ \E e \in Range(g.edges) : JoinsPair(e, b, c)
        /\ \E e \in Range(g.edges) : JoinsPair(e, c, a)

(* A search of a graph with a cycle has emptied its worklist. *)
C9_Witness ==
    /\ pc = "returned"
    /\ HasCycle(graph)
    /\ Len(st.queue) = 0
    /\ Len(st.results) > 2

-----------------------------------------------------------------------------
(* Claims about GraphOfThought.index *)

(* C11: without forceMode, index builds in graph mode when the document's
   complexityScore exceeds hybridMode.autoSwitchThreshold, and in tree mode
   when it does not and fallbackToTree is set. *)
C11_ModeFollowsComplexity ==
    (pc \in {"got-graph", "got-tree", "indexed"} /\ st.forceMode = "none") =>
        LET exceeds == NumberGt(analyzeDocument(content).complexityScore,
                                cfg.hybridMode.autoSwitchThreshold)
        IN /\ exceeds => st.mode = "graph"
           /\ (~exceeds /\ cfg.hybridMode.fallbackToTree) => st.mode = "tree"

(* C12: indexing a text with no paragraph in it, empty or white space only,
   gives an index without nodes: a graph without nodes, and in tree mode a
   tree without nodes. *)
C12_EmptyTextEmptyIndex ==
    (pc = "indexed" /\ splitIntoParagraphs(content) = <<>>) =>
        Len(graph.nodes) = 0 /\ Len(tree) = 0

-----------------------------------------------------------------------------
(* Claims about errors *)

(* C13: a call of findBoundedPaths that is handed a source id the graph
   does not hold ends with an error, not with a list of paths. *)
C13_MissingNodeFailsLoudly ==
    (pc = "returned" /\ \E i \in 1..Len(call.sources) : ~HasNode(graph, call.sources[i])) =>
        out.kind = "error"

NoNodeMatches(query, g) ==
    \A i \in 1..Len(g.nodes), j \in 1..Len(query) :
        ~NodeMatchesTerm(g.nodes[i], Lower(query[j]))

SearchReturned(c) == pc[c] \in {"search-returned", "retrieve-returned", "done"}

(* C14: when no node of the graph matches a term of the query,
   GraphIndexer.search returns an empty list of paths and an empty
   nodeList, and the call ends with a result, not with an error. *)
C14_NoMatchEmptyResult ==
    \A c \in Callers :
        (SearchReturned(c) /\ NoNodeMatches(call[c].query, graph)) =>
            /\ st[c].searchResult = [paths |-> <<>>, nodeList |-> <<>>]
            /\ pc[c] = "done" => out[c].kind = call[c].operation

(* A search for a query that matches nothing has returned, on a graph with
   edges to follow. *)
C14_Witness ==
    \E c \in Callers :
        /\ pc[c] = "done"
        /\ call[c].operation = "search"
        /\ NoNodeMatches(call[c].query, graph)
        /\ Len(graph.edges) > 1
        /\ out[c].value.paths = <<>>

(* C15: search and retrieve leave the index as index() returned it: at
   every point during and after any of the queries, the nodes, edges and
   metadata of the GraphIndex are those GraphIndexer.index built from the
   document. *)
C15_QueriesLeaveIndexAlone ==
    graph = GI_index(content, DocumentTitle, cfg)

(* A search and a retrieve have both finished with paths found. *)
C15_Witness ==
    \E c \in Callers, d \in Callers :
        /\ pc[c] = "done" /\ call[c].operation = "retrieve"
        /\ Len(out[c].value.contents) > 1
        /\ pc[d] = "done" /\ call[d].operation = "search"
        /\ Len(out[d].value.paths) > 1

-----------------------------------------------------------------------------
(* Claims about concurrent queries *)

ResultAlone(c) ==
    IF call[c].operation = "search"
    THEN [kind |-> "search", value |-> GoT_search(graph, call[c].query, cfg)]
    ELSE [kind |-> "retrieve", value |-> GoT_retrieve(graph, call[c].query, cfg)]

(* C16: when search and retrieve calls on one GraphIndex are interleaved at
   their awaits, every call that has finished returned exactly what the
   same call returns when it runs alone from start to end. *)
C16_InterleavedAsAlone ==
    \A c \in Callers : pc[c] = "done" => out[c] = ResultAlone(c)

(* A retrieve finished with paths and content after it shared its time in
   flight with a call for another query that also found paths. *)
C16_Witness ==
    \E c \in Callers, d \in Callers :
        /\ c # d
        /\ pc[c] = "done"
        /\ call[c].overlapped
        /\ call[c].operation = "retrieve"
        /\ Len(out[c].value.contents) > 1
        /\ pc[d] = "paths-awaited"
        /\ call[d].query # call[c].query
        /\ st[d].paths # <<>>
        /\ st[d].paths # st[c].paths

-----------------------------------------------------------------------------
(* Claims about edge weights *)

(* C17: every edge of a graph built by GraphIndexer.index has a weight
   between 0 and 1, the semantic edges between sections whose keyword lists
   repeat a word included. *)
C17_EdgeWeightInUnitInterval ==
    pc # "start" =>
        \A i \in 1..Len(graph.edges) :
            QLe(QZero, graph.edges[i].weight) /\ QLe(graph.edges[i].weight, QOne)

-----------------------------------------------------------------------------
(* Claims about the measures of a tree *)

(* C19: countNodes of a tree is the length of flattenTree of it, and
   getMaxDepth of a tree that has a node is at least 1. *)
C19_CountIsFlattenedLength ==
    pc = "measured" =>
        /\ out.countNodes = Len(out.flattenTree)
        /\ Len(tree) > 0 => out.getMaxDepth >= 1

(* A tree with nodes on three levels has been measured. *)
C19_Witness ==
    /\ pc = "measured"
    /\ out.countNodes > Len(tree) + 1
    /\ out.getMaxDepth >= 3

-----------------------------------------------------------------------------
(* Claims about SimpleSearch *)

ScoresOf(nodes, query) ==
    [n \in Range(SS_flattenTree(nodes)) |-> scoreNode(n, tokenize(query))]

PositiveNodes(scores) == {n \in DOMAIN scores : QLt(QZero, scores[n])}

(* C18: SimpleSearch.search returns the ids of the nodes whose score for the
   query is above 0 and of no other node, in non-increasing order of score,
   cut to the first maxResults: a node left out scores no more than any
   node returned, and is left out only when maxResults are returned. *)
C18_PositiveScoresRanked ==
    pc = "tree-searched" =>
        LET top == st.topNodes
            scores == ScoresOf(tree, call.query)
            positive == PositiveNodes(scores)
        IN /\ out.nodeList = [i \in 1..Len(top) |-> top[i].node.nodeId]
           /\ Len(top) <= call.maxResults
           /\ \A i \in 1..Len(top) :
                 /\ top[i].node \in positive
                 /\ top[i].score = scores[top[i].node]
           /\ \A i \in 1..(Len(top) - 1) : QLe(top[i + 1].score, top[i].score)
           /\ \A n \in positive :
                 \/ \E i \in 1..Len(top) : top[i].node = n
                 \/ /\ Len(top) = call.maxResults
                    /\ QLe(scores[n], top[Len(top)].score)

(* A search returned two nodes of different score, left a node of positive
   score out and met a node of score 0. *)
C18_Witness ==
    /\ pc = "tree-searched"
    /\ Len(st.topNodes) = 2
    /\ st.topNodes[1].score # st.topNodes[2].score
    /\ LET scores == ScoresOf(tree, call.query)
       IN /\ Cardinality(PositiveNodes(scores)) > 2
          /\ Cardinality(DOMAIN scores) > Cardinality(PositiveNodes(scores))

-----------------------------------------------------------------------------
(* Claims about the order of the worklist *)

Occurrences(s, x) == Cardinality({i \in 1..Len(s) : s[i] = x})

(* The iteration took e off the worklist: the entries in front of the ones
   it pushed are the entries the worklist held, less e once. *)
Removed(e) ==
    LET kept == SubSeq(st'.queue, 1, Len(st.queue) - 1)
    IN /\ Len(st'.queue) >= Len(st.queue) - 1
       /\ \A x \in Range(st.queue) :
             Occurrences(kept, x) + (IF x = e THEN 1 ELSE 0) = Occurrences(st.queue, x)

LowestDistance(e) == \A f \in Range(st.queue) : QLe(e.distance, f.distance)

HighestActivation(e) ==
    \A f \in Range(st.queue) :
        \/ QLt(f.activationScore, e.activationScore)
        \/ f.activationScore = e.activationScore /\ QLe(e.distance, f.distance)

NonDecreasingDistance(results) ==
    \A i \in 1..(Len(results) - 1) : QLe(results[i].distance, results[i + 1].distance)

(* C20: every iteration of the selective search takes off the worklist an
   entry of the highest activation score and, among those, of the lowest
   distance; every iteration of the baseline search takes off an entry of
   the lowest distance, and the paths it has accepted are in non-decreasing
   order of distance. *)
C20_PriorityOrder ==
    [][Looping =>
          \E e \in Range(st.queue) :
              /\ Removed(e)
              /\ IF call.variant = "baseline"
                 THEN LowestDistance(e) /\ NonDecreasingDistance(st'.results)
                 ELSE HighestActivation(e)]_vars

(* The baseline search has accepted paths of different distance and its
   worklist holds an entry ahead of one of lower distance. *)
C20_Witness ==
    /\ pc = "searching"
    /\ call.variant = "baseline"
    /\ Len(st.results) >= 2
    /\ st.results[1].distance # st.results[Len(st.results)].distance
    /\ \E i \in 1..Len(st.queue), j \in 1..Len(st.queue) :
          i < j /\ QLt(st.queue[j].distance, st.queue[i].distance)

-----------------------------------------------------------------------------
(* Claims about scores *)

(* The Jaccard similarity of two keyword lists taken as sets *)
Jaccard(keywords1, keywords2) ==
    LET a == Range(keywords1)
        b == Range(keywords2)
    IN IF a = {} \/ b = {} THEN QZero
       ELSE Q(Cardinality(a \cap b), Cardinality(a \cup b))

StoredCentralityInUnitInterval(node) ==
    /\ node.centrality # Undefined
    /\ QLe(QZero, node.centrality)
    /\ QLe(node.centrality, QOne)

(* The weighted sum of the five factors, clamped at 1 *)
WeightedActivation(node, sourceNodeIds, g) ==
    LET sources == {n \in Range(g.nodes) : Includes(sourceNodeIds, n.nodeId)}
        similarities == {Jaccard(KeywordsOf(node), KeywordsOf(n)) : n \in sources}
        similarity == IF sources = {} THEN QZero
                      ELSE CHOOSE x \in similarities : \A y \in similarities : QLe(y, x)
        sum == QSum(<<QMul(<<1, 4>>, node.centrality),
                      QMul(<<3, 10>>, similarity),
                      QMul(<<3, 20>>, IF KeywordsOf(node) # <<>> THEN <<2, 5>> ELSE QZero),
                      QMul(<<3, 20>>, IF node.type = "section" THEN <<4, 5>> ELSE <<3, 10>>),
                      QMul(<<3, 20>>, QMax(<<7, 10>>,
                                           QSub(QOne, Q(node.position.start, 10))))>>)
    IN QMin(QOne, sum)

(* C21: the activation score calculateNodeActivationScore gives a node whose
   stored centrality lies in [0,1] is min(1, 0.25 centrality + 0.30 (the
   greatest Jaccard similarity of its keywords to a source's) + 0.15 (0.4
   with keywords, else 0) + 0.15 (0.8 for a section, else 0.3) + 0.15 max(0.7,
   1 - 0.1 position.start)), and lies in [0,1]; checked on the entries the
   selective search is seeded with. *)
C21_ActivationIsWeightedSum ==
    (pc = "searching" /\ call.variant = "selective" /\ st.last = "seed") =>
        \A i \in 1..Len(st.queue) :
            LET node == FindNode(graph, st.queue[i].nodeId)
            IN StoredCentralityInUnitInterval(node) =>
                  /\ st.queue[i].activationScore
                        = WeightedActivation(node, call.sources, graph)
                  /\ QLe(QZero, st.queue[i].activationScore)
                  /\ QLe(st.queue[i].activationScore, QOne)

(* The centrality of a node of g: the value stored on it, or, on a graph
   built without the precomputation, the normalized count of its
   connections, which is what the precomputation stores. *)
CentralityIn(g, nodeId) ==
    LET node == FindNode(g, nodeId)
    IN IF node.centrality # Undefined THEN node.centrality
       ELSE calculateNodeCentrality(nodeId, g.edges)

(* The weight of the edge of g that joins two nodes, in either direction *)
WeightBetween(g, a, b) ==
    LET joining == {e \in Range(g.edges) :
                       (e.from = a /\ e.to = b) \/ (e.from = b /\ e.to = a)}
    IN (CHOOSE e \in joining : TRUE).weight

MeanOf(numbers) == QMul(QSum(numbers), <<1, Len(numbers)>>)

WeightedPathScore(g, nodeIds) ==
    LET weights == [i \in 1..(Len(nodeIds) - 1) |->
                       WeightBetween(g, nodeIds[i], nodeIds[i + 1])]
        centralities == [i \in 1..Len(nodeIds) |-> CentralityIn(g, nodeIds[i])]
    IN QMin(QOne, QAdd(QMul(<<7, 10>>, MeanOf(weights)),
                       QMul(<<3, 10>>, MeanOf(centralities))))

(* C22: on a graph index() has built, with or without the centrality
   precomputation, the pathScore of every returned path is min(1, 0.7 (mean
   weight of the path's edges) + 0.3 (mean centrality of the path's nodes))
   and lies in [0,1]. *)
C22_PathScoreIsWeightedMean ==
    pc = "returned" =>
        \A i \in 1..Len(ReturnedPaths) :
            /\ ReturnedPaths[i].pathScore
                  = WeightedPathScore(graph, ReturnedPaths[i].nodeIds)
            /\ QLe(QZero, ReturnedPaths[i].pathScore)
            /\ QLe(ReturnedPaths[i].pathScore, QOne)

-----------------------------------------------------------------------------
(* Claims about the edges GraphIndexer.index builds *)

SemanticEdgesBetween(g, a, b) ==
    {k \in 1..Len(g.edges) :
        /\ g.edges[k].type = "semantic"
        /\ \/ g.edges[k].from = a /\ g.edges[k].to = b
           \/ g.edges[k].from = b /\ g.edges[k].to = a}

(* C23: after index() with cross references enabled, two distinct section
   nodes are joined by a semantic edge exactly when the Jaccard similarity of
   their keyword sets is above minEdgeWeight; no pair has two such edges, the
   edge's weight is that similarity, and the similarity index() computes is
   the same for both orders of the two nodes. *)
C23_SemanticEdgeIffJaccard ==
    (pc # "start" /\ cfg.enableCrossReferences) =>
        \A i \in 1..Len(graph.nodes), j \in 1..Len(graph.nodes) :
            (i < j /\ graph.nodes[i].type = "section" /\ graph.nodes[j].type = "section") =>
                LET a == graph.nodes[i]
                    b == graph.nodes[j]
                    similarity == Jaccard(KeywordsOf(a), KeywordsOf(b))
                    joining == SemanticEdgesBetween(graph, a.nodeId, b.nodeId)
                IN /\ (joining # {}) <=> QLt(cfg.minEdgeWeight, similarity)
                   /\ Cardinality(joining) <= 1
                   /\ \A k \in joining : graph.edges[k].weight = similarity
                   /\ GI_calculateSemanticSimilarity(a, b)
                         = GI_calculateSemanticSimilarity(b, a)

(* C24: with enableCrossReferences false the graph index() builds has no
   semantic edge and has, for every section node, the parent-child edge of
   weight 0.8 from the document root to it. *)
C24_CrossReferencesOffKeepsParentChild ==
    (pc # "start" /\ ~cfg.enableCrossReferences) =>
        /\ \A k \in 1..Len(graph.edges) : graph.edges[k].type # "semantic"
        /\ \A i \in 2..Len(graph.nodes) :
              graph.nodes[i].type = "section" =>
                 \E k \in 1..Len(graph.edges) :
                    graph.edges[k] = [from |-> graph.nodes[1].nodeId,
                                      to |-> graph.nodes[i].nodeId,
                                      weight |-> <<4, 5>>, type |-> "parent-child"]

-----------------------------------------------------------------------------
(* Claims about the tree of sections *)

(* The nodes below the document root, parents before children, in order *)
Descendants(nodes) == IF Len(nodes) = 0 THEN <<>> ELSE flattenTree(nodes[1].children)

SameSection(node, section) ==
    /\ node.title = section.title
    /\ node.nodeId = section.nodeId
    /\ node.startIndex = section.startIndex
    /\ node.endIndex = section.endIndex
    /\ node.summary = section.summary

(* The length of the longest run of sections after the k-th whose levels are
   all above the level of the k-th *)
DeeperRunAfter(sections, k) ==
    CHOOSE n \in 0..(Len(sections) - k) :
        /\ \A m \in (k + 1)..(k + n) : sections[m].level > sections[k].level
        /\ k + n < Len(sections) => sections[k + n + 1].level <= sections[k].level

(* C25: a walk of the tree below the document root, parents first, meets the
   sections identifySections returned, each once and in their order, and
   the descendants of a node are the longest run of sections after it whose
   levels are above its level, so that the node after them, the first of a
   level not above its level, is no descendant of it. *)
C25_HierarchyFollowsLevels ==
    pc \in {"tree", "measured"} =>
        LET sections == TG_Sections(st)
            walk == Descendants(tree)
        IN /\ Len(walk) = Len(sections)
           /\ \A k \in 1..Len(sections) :
                 /\ SameSection(walk[k], sections[k])
                 /\ countNodes(walk[k].children) = DeeperRunAfter(sections, k)
                 /\ flattenTree(walk[k].children)
                       = SubSeq(walk, k + 1, k + DeeperRunAfter(sections, k))

(* A tree has been built from sections of which one has a section below it
   and a sibling after it. *)
C25_Witness ==
    /\ pc = "tree"
    /\ Len(TG_Sections(st)) = 3
    /\ Len(tree[1].children) = 2
    /\ Len(tree[1].children[1].children) = 1

(* The sections identifySections holds after the paragraphs it has seen:
   the closed ones, then the open one *)
SectionsSoFar ==
    IF st.currentSection # NoSection THEN Append(st.sections, st.currentSection)
    ELSE st.sections

IsHeadingParagraph(p) == analyzeParagraphForSection(p, cfg).isHeading

(* C26: identifySections neither loses nor repeats a paragraph: the contents
   of the sections, one after the other, are the paragraphs seen so far in
   their order; a section is either opened by a heading and followed by the
   body paragraphs up to the next heading, or is a 'Section N' wrapper
   around one body paragraph met before any heading, N being its place. *)
C26_SegmentationKeepsParagraphs ==
    pc \in {"segmenting", "tree", "measured"} =>
        LET sections == SectionsSoFar
            seen == SubSeq(st.paragraphs, 1, st.next - 1)
        IN /\ Flatten([k \in 1..Len(sections) |-> sections[k].content]) = seen
           /\ st.paragraphs = splitIntoParagraphs(content)
           /\ \A k \in 1..Len(sections) :
                 LET body == sections[k].content
                 IN /\ Len(body) >= 1
                    /\ \A m \in 2..Len(body) : ~IsHeadingParagraph(body[m])
                    /\ \/ /\ IsHeadingParagraph(body[1])
                          /\ sections[k].title
                                = analyzeParagraphForSection(body[1], cfg).title
                       \/ /\ ~IsHeadingParagraph(body[1])
                          /\ Len(body) = 1
                          /\ sections[k].title = <<"Section", ToString(k)>>
                          /\ \A j \in 1..k : ~IsHeadingParagraph(sections[j].content[1])

(* A body paragraph met before any heading has been wrapped, and a heading
   after it has taken a body paragraph. *)
C26_Witness ==
    /\ pc = "tree"
    /\ Len(TG_Sections(st)) = 2
    /\ TG_Sections(st)[1].title = <<"Section", "1">>
    /\ Len(TG_Sections(st)[2].content) = 2

(* C27: the paragraph identifySections has just classified opened a
   section exactly when GraphIndexer.analyzeParagraph makes it a section
   node, and then with the same title and level. *)
C27_ClassifiersAgree ==
    (pc = "segmenting" /\ st.last \in {"heading", "body", "orphan"}) =>
        LET p == st.paragraphs[st.next - 1]
            inGraph == analyzeParagraph(p)
        IN /\ (st.last = "heading") <=> inGraph.isSection
           /\ st.last = "heading" =>
                 /\ st.currentSection.title = inGraph.title
                 /\ st.currentSection.level = inGraph.level

-----------------------------------------------------------------------------
(* Claims about the graph GraphOfThought builds from a tree *)

(* C28: after index has built its graph from a tree, every node of the
   tree, at every depth, is a 'section' node of the graph, and an edge of
   type parent-child leads from the document root of the graph to it. *)
C28_EveryTreeNodeInGraph ==
    (pc = "indexed" /\ st.mode = "tree") =>
        \A treeNode \in Range(flattenTree(tree)) :
            /\ \E node \in Range(graph.nodes) :
                  node.nodeId = treeNode.nodeId /\ node.type = "section"
            /\ \E edge \in Range(graph.edges) :
                  /\ edge.from = graph.nodes[1].nodeId
                  /\ edge.to = treeNode.nodeId
                  /\ edge.type = "parent-child"

-----------------------------------------------------------------------------
(* Claims that compare the two variants of findBoundedPaths *)

(* The results the baseline loop gathers for the call in progress *)
BaselineAccepted ==
    BMSSP_Run(graph, call.options, BMSSP_Seed(graph, call.sources)).results

(* Neither loop stopped because it had gathered maxResults paths. *)
NeitherCutShort ==
    /\ Len(st.results) < call.options.maxResults
    /\ Len(BaselineAccepted) < call.options.maxResults

(* C29: when maxResults cuts neither search short, every path the selective
   search has accepted is a path the baseline search accepts for the same
   graph, sources and options, with the same distance and pathScore. *)
C29_SelectiveOnlyPrunes ==
    (pc = "returned" /\ call.variant = "selective" /\ NeitherCutShort) =>
        \A i \in 1..Len(st.results) :
            \E j \in 1..Len(BaselineAccepted) :
                /\ BaselineAccepted[j].nodeIds = st.results[i].nodeIds
                /\ BaselineAccepted[j].distance = st.results[i].distance
                /\ BaselineAccepted[j].pathScore = st.results[i].pathScore

-----------------------------------------------------------------------------
(* Claims about queries without a word *)

(* The query is '' or white space only. *)
IsBlankQuery(query) == \A i \in 1..Len(query) : query[i] = ""

(* C30: for an empty or white-space query, SimpleSearch.search scores
   every node 0 and returns an empty nodeList, and GraphIndexer.search finds
   no source node and returns no path and an empty nodeList. *)
C30_BlankQuerySelectsNothing ==
    /\ (pc = "tree-searched" /\ IsBlankQuery(call.query)) =>
          /\ \A node \in Range(SS_flattenTree(tree)) :
                scoreNode(node, tokenize(call.query)) = QZero
          /\ out.nodeList = <<>>
    /\ (pc \in {"searching", "returned"} /\ call.via = "search"
          /\ IsBlankQuery(call.query)) =>
          /\ call.sources = <<>>
          /\ pc = "returned" => out.value = EmptySearchResult

=============================================================================
